---- MODULE Spec2Model ----
(***************************************************************************)
(* A model of solarpi's device acquisition engine (src/solarpi/monitor.py, *)
(* src/solarpi/db.py): the battery-monitor frame assembler and the two     *)
(* decoders as operators, and the asyncio tasks (scan_devices,             *)
(* monitor_battery, monitor_charger, snapshot_task) as processes whose     *)
(* steps are the code between two suspension points (await).               *)
(***************************************************************************)
EXTENDS Integers, Sequences, FiniteSets, TLC

VARIABLES
    \* ---- monitor.py module globals
    ERROR_COUNT,        \* line 31
    BATTERY_MONITOR,    \* line 33: None or a BleakClient
    SOLAR_CHARGER,      \* line 34
    BT_LOCK,            \* line 30: FIFO of tasks, head = holder, rest = waiters
    DB,                 \* line 29: TRUE once init_db has opened the database
    \* ---- db.py State singleton and the wall clock
    state,              \* State.instance()
    now,                \* time(), in whole seconds
    timed,              \* whether the specification lets the clock run
    \* ---- main
    main_pc,
    \* ---- scan_devices
    scan_pc, scan_attempts, scan_trigger,
    \* ---- what a discovery pass finds, in the matching loop's runs
    discovered,         \* discovered_devices_and_advertisement_data.values()
    CONFIG,             \* config.CONFIG as config.load() left it
    \* ---- monitor_battery
    bat_pc, read_buffer, bat_last_sent, bat_now, error_count, bat_wake,
    \* ---- monitor_charger
    chg_pc, chg_last_sent, chg_wake,
    \* ---- snapshot_task
    snap_pc, last_timestamp, snap_wake,
    \* ---- the bytes the battery monitor sends in the assembler's runs
    asm_input, asm_rest,
    \* ---- history (what has happened, read by the properties only)
    decoded,            \* frames handed to decode_battery_monitor_data
    hist,               \* how a role task ended
    seen                \* when the writes and commits happened (timed runs)

None == "None"

\* None where a time is expected (last_sent)
NoTime == -1

\* None where a BleakClient is expected (BATTERY_MONITOR, SOLAR_CHARGER)
NoClient == [dev |-> None, is_connected |-> FALSE, notifying |-> FALSE]

\* Config(): no address is configured
Config == [battery_monitor_addr |-> "", solar_charger_addr |-> ""]

-----------------------------------------------------------------------------
(* Bytes and Python slices                                                 *)

LIVE_DATA_START == 187      \* 0xBB
RECORDED_DATA_START == 170  \* 0xAA
DATA_END == 238             \* 0xEE
VOLTAGE == 192              \* 0xC0
CURRENT == 193              \* 0xC1
IS_CHARGING == 209          \* 0xD1
REMAINING_AH == 210         \* 0xD2
TOTAL_DISCHARGE_ENERGY == 211   \* 0xD3
TOTAL_CHARGE_ENERGY == 212  \* 0xD4
TEMP_DATA == 217            \* 0xD9
IS_TEMP_IN_F == 247         \* 0xF7
POWER == 216                \* 0xD8
CmdFloor == 160             \* 0xA0
ReadBufferMax == 512

Min(a, b) == IF a <= b THEN a ELSE b

\* bytes.find(b): the 0-based index of the first b, or -1
Find(s, b) ==
    IF \E i \in 1..Len(s) : s[i] = b
    THEN (CHOOSE i \in 1..Len(s) : s[i] = b /\ \A j \in 1..(i - 1) : s[j] # b) - 1
    ELSE -1

\* s[a:b] for 0 <= a, b <= len(s)
Slice(s, a, b) == SubSeq(s, a + 1, b)

\* s[a:]
From(s, a) == SubSeq(s, a + 1, Len(s))

\* s[1:], for "packet[1:-1]" (line 233)
Interior_KeepsLast(s) == IF Len(s) <= 1 THEN <<>> ELSE Tail(s)

\* s[1:-1]
Interior(s) == IF Len(s) <= 2 THEN <<>> ELSE SubSeq(s, 2, Len(s) - 1)

is_cmd(c) == c >= CmdFloor

\* int(data.hex()) raises ValueError unless every hex digit is a decimal digit
HexIsDecimal(data) ==
    \A i \in 1..Len(data) : (data[i] \div 16) <= 9 /\ (data[i] % 16) <= 9

\* int(data.hex()): the hex digits read as a base-10 number
RECURSIVE IntOfHex(_)
IntOfHex(data) ==
    IF data = <<>> THEN 0
    ELSE IntOfHex(SubSeq(data, 1, Len(data) - 1)) * 100
         + (data[Len(data)] \div 16) * 10 + (data[Len(data)] % 16)

\* int(b.hex(), base=16): big-endian
RECURSIVE IntOfBytes(_)
IntOfBytes(b) ==
    IF b = <<>> THEN 0
    ELSE IntOfBytes(SubSeq(b, 1, Len(b) - 1)) * 256 + b[Len(b)]

\* n / d as an exact fraction in lowest terms, <<numerator, denominator>>
RECURSIVE Gcd(_, _)
Gcd(a, b) == IF b = 0 THEN a ELSE Gcd(b, a % b)

Abs(n) == IF n < 0 THEN -n ELSE n

Frac(n, d) ==
    LET g == Gcd(Abs(n), d) IN <<n \div g, d \div g>>

\* round(n / d, 1) for d odd (no ties), as a fraction
RoundTenths(n, d) ==
    LET t == (2 * 10 * n + d) \div (2 * d) IN Frac(t, 10)

-----------------------------------------------------------------------------
(* db.py: the shared reading                                               *)

StateInit ==
    [ timestamp |-> 0,
      battery_voltage |-> Frac(0, 1),
      battery_current |-> Frac(0, 1),
      battery_is_charging |-> FALSE,
      battery_is_temp_in_f |-> TRUE,
      battery_ah |-> Frac(0, 1),
      battery_temp |-> 0,
      battery_total_charge_energy |-> Frac(0, 1),
      battery_total_discharge_energy |-> Frac(0, 1),
      solar_panel_voltage |-> Frac(0, 1),
      charger_voltage |-> Frac(0, 1),
      charger_current |-> Frac(0, 1),
      charger_temp |-> 0,
      charger_total_energy |-> 0,
      charger_status |-> 0,
      room_temp |-> Frac(0, 1) ]

\* State.update_timestamp at time t
update_timestamp(st, t) == [st EXCEPT !.timestamp = t]

-----------------------------------------------------------------------------
(* decode_battery_monitor_data                                             *)

Recognised ==
    { VOLTAGE, CURRENT, TOTAL_CHARGE_ENERGY, TOTAL_DISCHARGE_ENERGY,
      REMAINING_AH, IS_CHARGING, IS_TEMP_IN_F, TEMP_DATA }

\* ApplyField with the Fahrenheit conversion (v - 32) * 5 / 9 for line 260
ApplyField_PlainFahrenheit(st, c, v) ==
    CASE c = VOLTAGE -> [st EXCEPT !.battery_voltage = Frac(v, 100)]
      [] c = CURRENT -> [st EXCEPT !.battery_current = Frac(v, 100)]
      [] c = TOTAL_CHARGE_ENERGY ->
            [st EXCEPT !.battery_total_charge_energy = Frac(v, 100)]
      [] c = TOTAL_DISCHARGE_ENERGY ->
            [st EXCEPT !.battery_total_discharge_energy = Frac(v, 100)]
      [] c = REMAINING_AH -> [st EXCEPT !.battery_ah = Frac(v, 1000)]
      [] c = IS_CHARGING -> [st EXCEPT !.battery_is_charging = (v = 1)]
      [] c = IS_TEMP_IN_F -> [st EXCEPT !.battery_is_temp_in_f = (v = 1)]
      [] c = TEMP_DATA ->
            [st EXCEPT !.room_temp =
                IF st.battery_is_temp_in_f
                THEN RoundTenths((v - 32) * 5, 9)
                ELSE Frac(v - 100, 1)]
      [] OTHER -> st

\* one recognised (value, field id) pair applied to the reading
ApplyField(st, c, v) ==
    CASE c = VOLTAGE -> [st EXCEPT !.battery_voltage = Frac(v, 100)]
      [] c = CURRENT -> [st EXCEPT !.battery_current = Frac(v, 100)]
      [] c = TOTAL_CHARGE_ENERGY ->
            [st EXCEPT !.battery_total_charge_energy = Frac(v, 100)]
      [] c = TOTAL_DISCHARGE_ENERGY ->
            [st EXCEPT !.battery_total_discharge_energy = Frac(v, 100)]
      [] c = REMAINING_AH -> [st EXCEPT !.battery_ah = Frac(v, 1000)]
      [] c = IS_CHARGING -> [st EXCEPT !.battery_is_charging = (v = 1)]
      [] c = IS_TEMP_IN_F -> [st EXCEPT !.battery_is_temp_in_f = (v = 1)]
      [] c = TEMP_DATA ->
            [st EXCEPT !.room_temp =
                IF st.battery_is_temp_in_f
                THEN RoundTenths((v - 32 - 5) * 5, 9)
                ELSE Frac(v - 100, 1)]
      [] OTHER -> st

\* the for loop over packet[1:-1]: bytes left, pending data, reading, changed
RECURSIVE DecodeLoop(_, _, _, _)
DecodeLoop(bytes, data, st, changed) ==
    IF bytes = <<>> THEN [st |-> st, changed |-> changed, raised |-> FALSE]
    ELSE LET c == Head(bytes) IN
         IF is_cmd(c) /\ data # <<>>
         THEN IF c \in Recognised
              THEN IF HexIsDecimal(data)
                   THEN DecodeLoop(Tail(bytes), <<>>,
                                   ApplyField(st, c, IntOfHex(data)), TRUE)
                   ELSE [st |-> st, changed |-> changed, raised |-> TRUE]
              ELSE DecodeLoop(Tail(bytes), <<>>, st, changed)
         ELSE DecodeLoop(Tail(bytes), Append(data, c), st, changed)

\* the reading after the call at time t, and whether ValueError was raised
decode_battery_monitor_data(packet, st, t) ==
    LET r == DecodeLoop(Interior(packet), <<>>, st, FALSE) IN
    IF r.raised THEN [st |-> r.st, raised |-> TRUE]
    ELSE [st |-> IF r.changed THEN update_timestamp(r.st, t) ELSE r.st,
          raised |-> FALSE]

-----------------------------------------------------------------------------
(* decode_solar_charger_data                                               *)

ChargerFrameLen == 43

\* decode_solar_charger_data without "len(packet) == 43" (line 374): any
\* packet long enough that carries the header is decoded
decode_solar_charger_data_AnyLength(packet, st, t) ==
    IF /\ Len(packet) >= ChargerFrameLen
       /\ packet[1] = 1
       /\ packet[2] = 3
       /\ packet[3] = 38
    THEN update_timestamp(
            [st EXCEPT
                !.charger_voltage = Frac(IntOfBytes(Slice(packet, 5, 7)), 10),
                !.charger_current = Frac(IntOfBytes(Slice(packet, 7, 9)), 100),
                !.charger_temp = packet[12],
                !.battery_temp = IF packet[13] < 128 THEN packet[13]
                                 ELSE 128 - packet[13],
                !.solar_panel_voltage = Frac(IntOfBytes(Slice(packet, 19, 21)), 10),
                !.charger_total_energy = IntOfBytes(Slice(packet, 33, 37)),
                !.charger_status = packet[29]], t)
    ELSE st

\* decode_solar_charger_data with "state.battery_temp = t" for line 384
decode_solar_charger_data_Unsigned(packet, st, t) ==
    IF /\ Len(packet) = ChargerFrameLen
       /\ packet[1] = 1
       /\ packet[2] = 3
       /\ packet[3] = 38
    THEN update_timestamp(
            [st EXCEPT
                !.charger_voltage = Frac(IntOfBytes(Slice(packet, 5, 7)), 10),
                !.charger_current = Frac(IntOfBytes(Slice(packet, 7, 9)), 100),
                !.charger_temp = packet[12],
                !.battery_temp = packet[13],
                !.solar_panel_voltage = Frac(IntOfBytes(Slice(packet, 19, 21)), 10),
                !.charger_total_energy = IntOfBytes(Slice(packet, 33, 37)),
                !.charger_status = packet[29]], t)
    ELSE st

\* decode_solar_charger_data with "state.room_temp" for "state.battery_temp"
\* (line 384)
decode_solar_charger_data_RoomTemp(packet, st, t) ==
    IF /\ Len(packet) = ChargerFrameLen
       /\ packet[1] = 1
       /\ packet[2] = 3
       /\ packet[3] = 38
    THEN update_timestamp(
            [st EXCEPT
                !.charger_voltage = Frac(IntOfBytes(Slice(packet, 5, 7)), 10),
                !.charger_current = Frac(IntOfBytes(Slice(packet, 7, 9)), 100),
                !.charger_temp = packet[12],
                !.room_temp = Frac(IF packet[13] < 128 THEN packet[13]
                                   ELSE 128 - packet[13], 1),
                !.solar_panel_voltage = Frac(IntOfBytes(Slice(packet, 19, 21)), 10),
                !.charger_total_energy = IntOfBytes(Slice(packet, 33, 37)),
                !.charger_status = packet[29]], t)
    ELSE st

decode_solar_charger_data(packet, st, t) ==
    IF /\ Len(packet) = ChargerFrameLen
       /\ packet[1] = 1
       /\ packet[2] = 3
       /\ packet[3] = 38
    THEN update_timestamp(
            [st EXCEPT
                !.charger_voltage = Frac(IntOfBytes(Slice(packet, 5, 7)), 10),
                !.charger_current = Frac(IntOfBytes(Slice(packet, 7, 9)), 100),
                !.charger_temp = packet[12],
                !.battery_temp = IF packet[13] < 128 THEN packet[13]
                                 ELSE 128 - packet[13],
                !.solar_panel_voltage = Frac(IntOfBytes(Slice(packet, 19, 21)), 10),
                !.charger_total_energy = IntOfBytes(Slice(packet, 33, 37)),
                !.charger_status = packet[29]], t)
    ELSE st

-----------------------------------------------------------------------------
(* monitor_battery.on_battery_monitor_data: the frame assembler            *)

\* AssembleLoop with "elif end < 0" for line 303: with no start marker in
\* the buffer, read_buffer[-1:end] is cut, which is empty
RECURSIVE AssembleLoop_NoStartTest(_, _, _, _)
AssembleLoop_NoStartTest(buf, st, frames, t) ==
    IF buf = <<>>
    THEN [buf |-> buf, st |-> st, frames |-> frames, raised |-> FALSE]
    ELSE LET start_live == Find(buf, LIVE_DATA_START)
             start_rec == Find(buf, RECORDED_DATA_START)
             start == IF start_live >= 0 /\ start_rec >= 0
                      THEN Min(start_live, start_rec)
                      ELSE IF start_live >= 0 THEN start_live ELSE start_rec
             end == Find(buf, DATA_END)
         IN IF end >= 0 /\ end <= start
            THEN [buf |-> From(buf, end + 1), st |-> st, frames |-> frames,
                  raised |-> FALSE]
            ELSE IF end < 0
            THEN [buf |-> buf, st |-> st, frames |-> frames, raised |-> FALSE]
            ELSE LET packet == IF start < 0 THEN <<>> ELSE Slice(buf, start, end)
                     rest == From(buf, end + 1)
                     d == decode_battery_monitor_data(packet, st, t)
                 IN IF d.raised
                    THEN [buf |-> rest, st |-> d.st,
                          frames |-> Append(frames, packet), raised |-> TRUE]
                    ELSE AssembleLoop_NoStartTest(rest, d.st, Append(frames, packet), t)

\* the while loop: buffer, reading, frames handed to the decoder so far
RECURSIVE AssembleLoop(_, _, _, _)
AssembleLoop(buf, st, frames, t) ==
    IF buf = <<>>
    THEN [buf |-> buf, st |-> st, frames |-> frames, raised |-> FALSE]
    ELSE LET start_live == Find(buf, LIVE_DATA_START)
             start_rec == Find(buf, RECORDED_DATA_START)
             start == IF start_live >= 0 /\ start_rec >= 0
                      THEN Min(start_live, start_rec)
                      ELSE IF start_live >= 0 THEN start_live ELSE start_rec
             end == Find(buf, DATA_END)
         IN IF end >= 0 /\ end <= start
            THEN \* discard extra, break
                 [buf |-> From(buf, end + 1), st |-> st, frames |-> frames,
                  raised |-> FALSE]
            ELSE IF end < 0 \/ start < 0
            THEN \* need to read more
                 [buf |-> buf, st |-> st, frames |-> frames, raised |-> FALSE]
            ELSE LET packet == Slice(buf, start, end)
                     rest == From(buf, end + 1)
                     d == decode_battery_monitor_data(packet, st, t)
                 IN IF d.raised
                    THEN [buf |-> rest, st |-> d.st,
                          frames |-> Append(frames, packet), raised |-> TRUE]
                    ELSE AssembleLoop(rest, d.st, Append(frames, packet), t)

\* on_battery_monitor_data without "read_buffer = read_buffer[end + 1 :]" where
\* the end marker comes first (line 301)
on_battery_monitor_data_KeepsExtra(buf, st, data, t) ==
    LET all == buf \o data
        r == AssembleLoop(all, st, <<>>, t)
        kept == IF r.frames = <<>> /\ Len(r.buf) < Len(all) THEN all ELSE r.buf
    IN IF r.raised
       THEN [buf |-> r.buf, st |-> r.st, frames |-> r.frames, sent |-> FALSE]
       ELSE [buf |-> IF Len(kept) > ReadBufferMax THEN <<>> ELSE kept,
             st |-> r.st, frames |-> r.frames, sent |-> TRUE]

\* The callback on one notification at time t. sent: whether last_sent was set
\* (the last statement, not reached when the decoder raises).
on_battery_monitor_data(buf, st, data, t) ==
    LET r == AssembleLoop(buf \o data, st, <<>>, t) IN
    IF r.raised
    THEN [buf |-> r.buf, st |-> r.st, frames |-> r.frames, sent |-> FALSE]
    ELSE [buf |-> IF Len(r.buf) > ReadBufferMax THEN <<>> ELSE r.buf,
          st |-> r.st, frames |-> r.frames, sent |-> TRUE]

-----------------------------------------------------------------------------
(* State shared by the specifications                                      *)

vars == << ERROR_COUNT, BATTERY_MONITOR, SOLAR_CHARGER, BT_LOCK, DB,
           state, now, timed,
           scan_pc, scan_attempts, scan_trigger,
           bat_pc, read_buffer, bat_last_sent, bat_now, error_count, bat_wake,
           chg_pc, chg_last_sent, chg_wake,
           snap_pc, last_timestamp, snap_wake,
           asm_input, asm_rest, decoded, hist, seen,
           main_pc, discovered, CONFIG >>

handleVars == << BATTERY_MONITOR, SOLAR_CHARGER >>
globalVars == << ERROR_COUNT, BATTERY_MONITOR, SOLAR_CHARGER, BT_LOCK, DB >>
clockVars == << now, timed >>
scanVars == << scan_pc, scan_attempts, scan_trigger >>
batVars == << bat_pc, read_buffer, bat_last_sent, bat_now, error_count, bat_wake >>
chgVars == << chg_pc, chg_last_sent, chg_wake >>
snapVars == << snap_pc, last_timestamp, snap_wake >>
asmVars == << asm_input, asm_rest, decoded >>
matchVars == << discovered, CONFIG >>

Epoch == 1      \* the clock's first reading (any value other than 0 will do)

\* A BleakClient: the device it was made for, its is_connected, and whether
\* start_notify has registered the task's callback on this connection
Client(d) == [dev |-> d, is_connected |-> FALSE, notifying |-> FALSE]

Connected(c) == [c EXCEPT !.is_connected = TRUE, !.notifying = FALSE]
Notifying(c) == [c EXCEPT !.notifying = TRUE]
Disconnected(c) == [c EXCEPT !.is_connected = FALSE, !.notifying = FALSE]

\* What has happened so far, for the properties to read
HistInit ==
    [ died |-> None ]           \* the exception that ended a role task

\* Times of what the tasks did, kept where the clock runs
SeenInit ==
    [ bat_sub |-> NoTime,       \* start_notify of the battery monitor returned
      bat_decided |-> NoTime,   \* the last refresh write was decided
      bat_failed |-> FALSE,     \* the last refresh write raised BleakError
      chg_sub |-> NoTime,       \* start_notify of the charger returned, kept
                                \* until the first request on the connection
      chg_decided |-> NoTime,   \* the last request was decided on this connection
      chg_replied |-> FALSE,    \* a notification came since that request
      committed |-> 0 ]         \* timestamp of the last row committed

Note(r) == IF timed THEN r ELSE seen

\* The callback of monitor_battery on one notification at time now. The caller
\* says what becomes of the history variable decoded.
BatteryNotify(data) ==
    LET r == on_battery_monitor_data(read_buffer, state, data, now) IN
    /\ read_buffer' = r.buf
    /\ state' = r.st
    /\ bat_last_sent' = IF r.sent THEN now ELSE bat_last_sent

\* The callback of monitor_charger
ChargerNotify(data) ==
    /\ state' = decode_solar_charger_data(data, state, now)
    /\ chg_last_sent' = NoTime

-----------------------------------------------------------------------------
(* The frame assembler fed one byte sequence in chunks                     *)

MaxLen == 4
AsmBytes == { LIVE_DATA_START, RECORDED_DATA_START, DATA_END, VOLTAGE, 2, 26 }

RECURSIVE SeqsUpTo(_, _)
SeqsUpTo(S, n) ==
    IF n = 0 THEN { <<>> }
    ELSE LET shorter == SeqsUpTo(S, n - 1) IN
         shorter \cup { Append(s, b) : s \in { x \in shorter : Len(x) = n - 1 }, b \in S }

\* the battery monitor is connected and streaming; nothing else moves
AsmInit ==
    /\ ERROR_COUNT = 0
    /\ BATTERY_MONITOR = Notifying(Connected(Client("bm")))
    /\ SOLAR_CHARGER = Notifying(Connected(Client("sc")))
    /\ BT_LOCK = <<>>
    /\ DB = TRUE
    /\ state = StateInit
    /\ now = Epoch /\ timed = FALSE
    /\ scan_pc = "sleep" /\ scan_attempts = 0 /\ scan_trigger = None
    /\ bat_pc = "stream" /\ read_buffer = <<>> /\ bat_last_sent = Epoch
    /\ bat_now = Epoch /\ error_count = 0 /\ bat_wake = 0
    /\ chg_pc = "stream" /\ chg_last_sent = NoTime /\ chg_wake = 0
    /\ snap_pc = "sleep" /\ last_timestamp = 0 /\ snap_wake = 0
    /\ asm_input \in SeqsUpTo(AsmBytes, MaxLen)
    /\ asm_rest = asm_input
    /\ decoded = <<>>
    /\ hist = HistInit
    /\ seen = SeenInit
    /\ main_pc = "gather" /\ discovered = <<>> /\ CONFIG = Config

\* the next n bytes arrive as one notification
Deliver(n) ==
    LET data == SubSeq(asm_rest, 1, n) IN
    /\ BatteryNotify(data)
    /\ decoded' = decoded \o
          on_battery_monitor_data(read_buffer, state, data, now).frames
    /\ asm_rest' = From(asm_rest, n)
    /\ UNCHANGED << globalVars, clockVars, scanVars, bat_pc, bat_now,
                    error_count, bat_wake, chgVars, snapVars, asm_input, hist, seen,
                    matchVars, main_pc >>

AsmDeliver == \E n \in 1..Len(asm_rest) : Deliver(n)

AsmNext == AsmDeliver

AsmSpec == AsmInit /\ [][AsmNext]_vars

\* C1: once all bytes have been delivered, the frames handed to the decoder
\* are those of delivering the same bytes as one single notification,
\* whatever the chunking was.
C1_ChunkInvariant ==
    asm_rest = <<>> =>
        decoded = on_battery_monitor_data(<<>>, StateInit, asm_input, Epoch).frames

-----------------------------------------------------------------------------
(* The frame assembler on a link that misbehaves: long runs of bytes with  *)
(* no marker, and frames whose value bytes the decoder cannot read         *)

FillerLen == 300        \* bytes in a run without a marker
MaxNotes == 4           \* pieces in the stream the battery monitor sends

Filler == [ i \in 1..FillerLen |-> 2 ]

\* bb 02 45 c0 00 ee: 2.45 V
GoodFrame == << LIVE_DATA_START, 2, 69, VOLTAGE, 0, DATA_END >>

\* bb 1a 1a c0 00 ee: int("1a1a") raises ValueError in the decoder
BadFrame == << LIVE_DATA_START, 26, 26, VOLTAGE, 0, DATA_END >>

FloodPieces == { Filler, GoodFrame, BadFrame, << DATA_END >> }

RECURSIVE Flatten(_)
Flatten(ss) == IF ss = <<>> THEN <<>> ELSE Head(ss) \o Flatten(Tail(ss))

FloodStreams == { Flatten(ss) : ss \in SeqsUpTo(FloodPieces, MaxNotes) }

\* the sizes of the notifications the stream is cut into
FloodSizes ==
    { Len(GoodFrame), FillerLen, 1 + Len(GoodFrame) + FillerLen,
      2 * Len(GoodFrame) + FillerLen }

FloodInit ==
    /\ ERROR_COUNT = 0
    /\ BATTERY_MONITOR = Notifying(Connected(Client("bm")))
    /\ SOLAR_CHARGER = Notifying(Connected(Client("sc")))
    /\ BT_LOCK = <<>>
    /\ DB = TRUE
    /\ state = StateInit
    /\ now = Epoch /\ timed = FALSE
    /\ scan_pc = "sleep" /\ scan_attempts = 0 /\ scan_trigger = None
    /\ bat_pc = "stream" /\ read_buffer = <<>> /\ bat_last_sent = Epoch
    /\ bat_now = Epoch /\ error_count = 0 /\ bat_wake = 0
    /\ chg_pc = "stream" /\ chg_last_sent = NoTime /\ chg_wake = 0
    /\ snap_pc = "sleep" /\ last_timestamp = 0 /\ snap_wake = 0
    /\ asm_input \in FloodStreams
    /\ asm_rest = asm_input
    /\ decoded = <<>>
    /\ hist = HistInit
    /\ seen = SeenInit
    /\ main_pc = "gather" /\ discovered = <<>> /\ CONFIG = Config

FloodDeliver == \E n \in FloodSizes : n <= Len(asm_rest) /\ Deliver(n)

FloodNext == FloodDeliver

FloodSpec == FloodInit /\ [][FloodNext]_vars

\* C12: between notifications the assembler's buffer holds at most 512 bytes.
C12_BufferBounded == Len(read_buffer) <= ReadBufferMax

-----------------------------------------------------------------------------
(* The frame assembler and the decoder on frames that are not well formed  *)

MaxFrames == 2          \* frames in the stream

\* bb 1a c0 40 ee: a value byte with a hex digit above 9
HexFrame == << LIVE_DATA_START, 26, VOLTAGE, 64, DATA_END >>

\* bb 01 c1 c0 ee: a field id that follows another field id
TwinFrame == << LIVE_DATA_START, 1, CURRENT, VOLTAGE, DATA_END >>

\* bb c0 02 45 c1 ee: a field id that follows the start marker
HeadFrame == << LIVE_DATA_START, VOLTAGE, 2, 69, CURRENT, DATA_END >>

Malformed == { HexFrame, TwinFrame, HeadFrame }

NoiseStreams ==
    { Flatten(fs) : fs \in SeqsUpTo(Malformed \cup { GoodFrame }, MaxFrames) }

\* the battery monitor is connected and streaming; no notification has come
NoiseInit ==
    /\ ERROR_COUNT = 0
    /\ BATTERY_MONITOR = Notifying(Connected(Client("54:14")))
    /\ SOLAR_CHARGER = Notifying(Connected(Client("C8:47")))
    /\ BT_LOCK = <<>>
    /\ DB = TRUE
    /\ state = StateInit
    /\ now = Epoch /\ timed = FALSE
    /\ scan_pc = "sleep" /\ scan_attempts = 0 /\ scan_trigger = None
    /\ bat_pc = "stream" /\ read_buffer = <<>> /\ bat_last_sent = NoTime
    /\ bat_now = Epoch /\ error_count = 0 /\ bat_wake = 0
    /\ chg_pc = "stream" /\ chg_last_sent = NoTime /\ chg_wake = 0
    /\ snap_pc = "sleep" /\ last_timestamp = 0 /\ snap_wake = 0
    /\ asm_input \in NoiseStreams
    /\ asm_rest = asm_input
    /\ decoded = <<>>
    /\ hist = HistInit
    /\ seen = SeenInit
    /\ main_pc = "gather" /\ discovered = <<>> /\ CONFIG = Config

NoiseNext == AsmDeliver

NoiseSpec == NoiseInit /\ [][NoiseNext]_vars

-----------------------------------------------------------------------------
(* The tasks of main(): what they share                                    *)

ErrorLimit == 5         \* ERROR_COUNT >= 5 forces a reset
ScanLimit == 10         \* scan_attempts >= 10 forces a reset
RefreshErrorLimit == 9  \* error_count > 9 re-raises the BleakError
BatteryWindow == 60
ChargerWindow == 5
BatteryPoll == 10
ChargerPoll == 2

MaxErrorCount == 6      \* ERROR_COUNT is not counted beyond this
MaxScanAttempts == 11   \* scan_attempts is not counted beyond this
MaxTime == 75           \* the clock stops here
MaxFaults == 1          \* faults followed where the clock runs

\* An exception out of a role's except block ends the task, gather() raises
\* in main() and the process shuts down: no task takes another step.
Running == bat_pc # "dead" /\ chg_pc # "dead"

\* asyncio.Lock: a free lock is taken without suspending, otherwise the task
\* queues up and is woken in FIFO order
Holds(t) == BT_LOCK # <<>> /\ Head(BT_LOCK) = t
Acquire(t) == Append(BT_LOCK, t)
Release == Tail(BT_LOCK)

\* An adapter call may raise; where the clock runs, faults are followed
\* while fewer than MaxFaults have been counted
CanFault == timed => ERROR_COUNT < MaxFaults

\* asyncio.sleep(d): the instant the task may resume
Deadline(d) == IF timed THEN now + d ELSE 0
Awake(w) == timed => now >= w

\* time() - last_sent > window, as seen at a poll; where the clock is not
\* followed the comparison may go either way
Due(last_sent, window) ==
    IF last_sent = NoTime THEN { TRUE }
    ELSE IF timed THEN { now - last_sent > window }
    ELSE BOOLEAN

-----------------------------------------------------------------------------
(* scan_devices                                                            *)

BATTERY_MONITOR_DATA_SERVICE_UUID == "fff0"
SOLAR_CHARGER_DATA_SERVICE_UUID == "ffe0"

\* What a discovery pass may see: (device, advertisement data) pairs
Devices ==
    { [address |-> "54:14", service_uuids |->
            { BATTERY_MONITOR_DATA_SERVICE_UUID, SOLAR_CHARGER_DATA_SERVICE_UUID }],
      [address |-> "C8:47", service_uuids |-> { SOLAR_CHARGER_DATA_SERVICE_UUID }],
      [address |-> "00:0A", service_uuids |-> {}] }

\* discovered_devices_and_advertisement_data.values(): the devices seen, in
\* the order of discovery
Discoveries ==
    { r \in SeqsUpTo(Devices, Cardinality(Devices)) :
        \A i, j \in 1..Len(r) : i # j => r[i] # r[j] }

\* config.CONFIG as the pass reads it from disk
Configs ==
    { [battery_monitor_addr |-> "", solar_charger_addr |-> ""],
      [battery_monitor_addr |-> "54:14", solar_charger_addr |-> "C8:47"] }

\* MatchDevice without "and BATTERY_MONITOR_DATA_SERVICE_UUID not in
\* data.service_uuids" (lines 185-186)
MatchDevice_AnyChargerUuid(h, device, cfg) ==
    IF /\ h[1] = NoClient
       /\ \/ device.address = cfg.battery_monitor_addr
          \/ BATTERY_MONITOR_DATA_SERVICE_UUID \in device.service_uuids
    THEN << Client(device.address), h[2] >>
    ELSE IF /\ h[2] = NoClient
            /\ \/ device.address = cfg.solar_charger_addr
               \/ SOLAR_CHARGER_DATA_SERVICE_UUID \in device.service_uuids
    THEN << h[1], Client(device.address) >>
    ELSE h

\* MatchDevice without the tests "BATTERY_MONITOR is None" (line 172) and
\* "SOLAR_CHARGER is None" (line 181)
MatchDevice_Rebinds(h, device, cfg) ==
    IF \/ device.address = cfg.battery_monitor_addr
       \/ BATTERY_MONITOR_DATA_SERVICE_UUID \in device.service_uuids
    THEN << Client(device.address), h[2] >>
    ELSE IF \/ device.address = cfg.solar_charger_addr
            \/ /\ SOLAR_CHARGER_DATA_SERVICE_UUID \in device.service_uuids
               /\ BATTERY_MONITOR_DATA_SERVICE_UUID \notin device.service_uuids
    THEN << h[1], Client(device.address) >>
    ELSE h

\* one turn of the matching loop: the handles <<bm, sc>> after the device
MatchDevice(h, device, cfg) ==
    IF /\ h[1] = NoClient
       /\ \/ device.address = cfg.battery_monitor_addr
          \/ BATTERY_MONITOR_DATA_SERVICE_UUID \in device.service_uuids
    THEN << Client(device.address), h[2] >>
    ELSE IF /\ h[2] = NoClient
            /\ \/ device.address = cfg.solar_charger_addr
               \/ /\ SOLAR_CHARGER_DATA_SERVICE_UUID \in device.service_uuids
                  /\ BATTERY_MONITOR_DATA_SERVICE_UUID \notin device.service_uuids
    THEN << h[1], Client(device.address) >>
    ELSE h

RECURSIVE MatchAll(_, _, _)
MatchAll(h, result, cfg) ==
    IF result = <<>> THEN h
    ELSE MatchAll(MatchDevice(h, Head(result), cfg), Tail(result), cfg)

\* reset_bluetooth up to its first sleep, and what follows if bluetooth_power
\* raises: the exception leaves the try block of scan_devices, is logged, and
\* the sleep of the finally clause begins. scan_pc tells the three ways into
\* that sleep apart: "sleep" (no exception), "failed" (a power command
\* raised), "raised" (the discovery pass raised)
ResetBegin(trigger) ==
    /\ BATTERY_MONITOR' = NoClient
    /\ SOLAR_CHARGER' = NoClient
    /\ \E ok \in BOOLEAN :
        /\ scan_pc' = IF ok THEN "reset_off" ELSE "failed"
        /\ scan_trigger' = IF ok THEN trigger ELSE None

\* the loop body from "if BATTERY_MONITOR and SOLAR_CHARGER" to the scan
ScanProceed ==
    IF BATTERY_MONITOR # NoClient /\ SOLAR_CHARGER # NoClient
    THEN scan_pc' = "sleep" /\ UNCHANGED BT_LOCK
    ELSE /\ BT_LOCK' = Acquire("scan")
         /\ scan_pc' = IF BT_LOCK = <<>> THEN "scan_window" ELSE "lock_wait"

\* the loop top, after the sleep of the finally clause
ScanWake ==
    /\ Running /\ scan_pc \in { "sleep", "failed", "raised" }
    /\ IF ERROR_COUNT >= ErrorLimit
       THEN /\ ResetBegin("errors")
            /\ UNCHANGED << ERROR_COUNT, BT_LOCK, scan_attempts >>
       ELSE /\ ScanProceed
            /\ UNCHANGED << ERROR_COUNT, handleVars, scan_attempts,
                            scan_trigger >>
    /\ UNCHANGED << DB, state, clockVars, batVars, chgVars, snapVars, asmVars, matchVars, main_pc, seen,
                    hist >>

\* reset_bluetooth after its first sleep: power on
ScanResetOff ==
    /\ Running /\ scan_pc = "reset_off"
    /\ \E ok \in BOOLEAN :
        /\ scan_pc' = IF ok THEN "reset_on" ELSE "failed"
        /\ scan_trigger' = IF ok THEN scan_trigger ELSE None
    /\ UNCHANGED << globalVars, state, clockVars, scan_attempts, batVars,
                    chgVars, snapVars, asmVars, matchVars, main_pc, seen, hist >>

\* ScanResetOn without "ERROR_COUNT = 0" (line 154)
ScanResetOn_KeepsCount ==
    /\ Running /\ scan_pc = "reset_on"
    /\ scan_trigger' = None
    /\ IF scan_trigger = "errors"
       THEN /\ UNCHANGED ERROR_COUNT
            /\ ScanProceed
            /\ UNCHANGED scan_attempts
       ELSE /\ scan_attempts' = 0
            /\ scan_pc' = "sleep"
            /\ UNCHANGED << ERROR_COUNT, BT_LOCK >>
    /\ UNCHANGED << handleVars, DB, state, clockVars, batVars, chgVars,
                    snapVars, asmVars, matchVars, main_pc, seen, hist >>

\* reset_bluetooth returns, and the caller zeroes its counter
ScanResetOn ==
    /\ Running /\ scan_pc = "reset_on"
    /\ scan_trigger' = None
    /\ IF scan_trigger = "errors"
       THEN /\ ERROR_COUNT' = 0
            /\ ScanProceed
            /\ UNCHANGED scan_attempts
       ELSE /\ scan_attempts' = 0
            /\ scan_pc' = "sleep"
            /\ UNCHANGED << ERROR_COUNT, BT_LOCK >>
    /\ UNCHANGED << handleVars, DB, state, clockVars, batVars, chgVars,
                    snapVars, asmVars, matchVars, main_pc, seen, hist >>

ScanLockAcquired ==
    /\ Running /\ scan_pc = "lock_wait" /\ Holds("scan")
    /\ scan_pc' = "scan_window"
    /\ UNCHANGED << globalVars, state, clockVars, scan_attempts, scan_trigger,
                    batVars, chgVars, snapVars, asmVars, matchVars, main_pc, seen, hist >>

\* BleakScanner starts and the 10 s window ends: the devices seen are
\* matched; or the scanner raises, which leaves the lock and the try block
ScanWindow ==
    /\ Running /\ scan_pc = "scan_window"
    /\ \/ \E result \in Discoveries, cfg \in Configs :
            LET h == MatchAll(<< BATTERY_MONITOR, SOLAR_CHARGER >>, result, cfg) IN
            /\ BATTERY_MONITOR' = h[1]
            /\ SOLAR_CHARGER' = h[2]
            /\ scan_pc' = "scan_settle"
            /\ UNCHANGED BT_LOCK
       \/ /\ BT_LOCK' = Release
          /\ scan_pc' = "raised"
          /\ UNCHANGED handleVars
    /\ UNCHANGED << ERROR_COUNT, DB, state, clockVars, scan_attempts,
                    scan_trigger, batVars, chgVars, snapVars, asmVars, matchVars, main_pc, seen, hist >>

\* ScanSettle without "scan_attempts = 0" when both roles are bound (line 196)
ScanSettle_NoRestart ==
    /\ Running /\ scan_pc = "scan_settle"
    /\ BT_LOCK' = Release
    /\ \/ /\ BATTERY_MONITOR # NoClient /\ SOLAR_CHARGER # NoClient
          /\ scan_pc' = "sleep"
          /\ UNCHANGED << handleVars, scan_attempts, scan_trigger >>
       \/ /\ ~(BATTERY_MONITOR # NoClient /\ SOLAR_CHARGER # NoClient)
          /\ scan_attempts < MaxScanAttempts
          /\ scan_attempts' = scan_attempts + 1
          /\ IF scan_attempts + 1 >= ScanLimit
             THEN ResetBegin("attempts")
             ELSE /\ scan_pc' = "sleep"
                  /\ UNCHANGED << handleVars, scan_trigger >>
       \/ \* BleakScanner.stop raises
          /\ scan_pc' = "raised"
          /\ UNCHANGED << handleVars, scan_attempts, scan_trigger >>
    /\ UNCHANGED << ERROR_COUNT, DB, state, clockVars, batVars, chgVars,
                    snapVars, asmVars, matchVars, main_pc, seen, hist >>

\* after the 1 s sleep the scanner stops and the lock is released; then the
\* pass is judged
ScanSettle ==
    /\ Running /\ scan_pc = "scan_settle"
    /\ BT_LOCK' = Release
    /\ \/ /\ BATTERY_MONITOR # NoClient /\ SOLAR_CHARGER # NoClient
          /\ scan_attempts' = 0
          /\ scan_pc' = "sleep"
          /\ UNCHANGED << handleVars, scan_trigger >>
       \/ /\ ~(BATTERY_MONITOR # NoClient /\ SOLAR_CHARGER # NoClient)
          /\ scan_attempts < MaxScanAttempts
          /\ scan_attempts' = scan_attempts + 1
          /\ IF scan_attempts + 1 >= ScanLimit
             THEN ResetBegin("attempts")
             ELSE /\ scan_pc' = "sleep"
                  /\ UNCHANGED << handleVars, scan_trigger >>
       \/ \* BleakScanner.stop raises
          /\ scan_pc' = "raised"
          /\ UNCHANGED << handleVars, scan_attempts, scan_trigger >>
    /\ UNCHANGED << ERROR_COUNT, DB, state, clockVars, batVars, chgVars,
                    snapVars, asmVars, matchVars, main_pc, seen, hist >>

ScanStep ==
    \/ ScanWake
    \/ ScanResetOff
    \/ ScanResetOn
    \/ ScanLockAcquired
    \/ ScanWindow
    \/ ScanSettle

-----------------------------------------------------------------------------
(* monitor_battery                                                         *)

\* ERROR_COUNT += 1
CountError ==
    /\ ERROR_COUNT < MaxErrorCount
    /\ ERROR_COUNT' = ERROR_COUNT + 1
    /\ UNCHANGED hist

\* the except block up to its first await; bm is BATTERY_MONITOR as the step
\* that raised leaves it
BatFault(bm) ==
    IF bm # NoClient /\ bm.is_connected
    THEN /\ bat_pc' = "fault_disconnect"
         /\ UNCHANGED << ERROR_COUNT, hist, bat_wake >>
    ELSE /\ CountError
         /\ bat_pc' = "cooldown"
         /\ bat_wake' = Deadline(5)

\* "while BATTERY_MONITOR.is_connected": into the 10 s sleep, out of the try
\* block, or AttributeError when a reset has cleared the handle
BatLoopTest(bm) ==
    IF bm = NoClient THEN BatFault(bm)
    ELSE /\ bat_pc' = IF bm.is_connected THEN "stream" ELSE "idle"
         /\ bat_wake' = IF bm.is_connected THEN Deadline(BatteryPoll) ELSE Deadline(1)
         /\ UNCHANGED << ERROR_COUNT, hist >>

\* BatWake without "read_buffer = bytearray()" (line 280)
BatWake_KeepsBuffer ==
    /\ Running /\ bat_pc = "idle" /\ Awake(bat_wake)
    /\ IF SOLAR_CHARGER = NoClient \/ BATTERY_MONITOR = NoClient
       THEN /\ bat_wake' = Deadline(1)
            /\ UNCHANGED << BT_LOCK, bat_pc, read_buffer, bat_last_sent >>
       ELSE /\ bat_last_sent' = NoTime
            /\ BT_LOCK' = Acquire("bat")
            /\ bat_pc' = IF BT_LOCK = <<>> THEN "connect" ELSE "lock_wait"
            /\ UNCHANGED << bat_wake, read_buffer >>
    /\ UNCHANGED << ERROR_COUNT, handleVars, DB, state, clockVars, scanVars,
                    bat_now, error_count, chgVars, snapVars, asmVars, matchVars, main_pc, seen, hist >>

\* BatWake with "if BATTERY_MONITOR is None" for line 278
BatWake_OwnHandle ==
    /\ Running /\ bat_pc = "idle" /\ Awake(bat_wake)
    /\ IF BATTERY_MONITOR = NoClient
       THEN /\ bat_wake' = Deadline(1)
            /\ UNCHANGED << BT_LOCK, bat_pc, read_buffer, bat_last_sent >>
       ELSE /\ read_buffer' = <<>>
            /\ bat_last_sent' = NoTime
            /\ BT_LOCK' = Acquire("bat")
            /\ bat_pc' = IF BT_LOCK = <<>> THEN "connect" ELSE "lock_wait"
            /\ UNCHANGED bat_wake
    /\ UNCHANGED << ERROR_COUNT, handleVars, DB, state, clockVars, scanVars,
                    bat_now, error_count, chgVars, snapVars, asmVars, matchVars, main_pc, seen, hist >>

\* loop top after sleep(1): wait for both handles, then take the lock
BatWake ==
    /\ Running /\ bat_pc = "idle" /\ Awake(bat_wake)
    /\ IF SOLAR_CHARGER = NoClient \/ BATTERY_MONITOR = NoClient
       THEN /\ bat_wake' = Deadline(1)
            /\ UNCHANGED << BT_LOCK, bat_pc, read_buffer, bat_last_sent >>
       ELSE /\ read_buffer' = <<>>
            /\ bat_last_sent' = NoTime
            /\ BT_LOCK' = Acquire("bat")
            /\ bat_pc' = IF BT_LOCK = <<>> THEN "connect" ELSE "lock_wait"
            /\ UNCHANGED bat_wake
    /\ UNCHANGED << ERROR_COUNT, handleVars, DB, state, clockVars, scanVars,
                    bat_now, error_count, chgVars, snapVars, asmVars, matchVars, main_pc, seen, hist >>

\* the lock is granted: BATTERY_MONITOR.connect is called
BatLockAcquired ==
    /\ Running /\ bat_pc = "lock_wait" /\ Holds("bat")
    /\ IF BATTERY_MONITOR = NoClient
       THEN /\ BT_LOCK' = Release
            /\ BatFault(BATTERY_MONITOR)
       ELSE /\ bat_pc' = "connect"
            /\ UNCHANGED << BT_LOCK, ERROR_COUNT, hist, bat_wake >>
    /\ UNCHANGED << handleVars, DB, state, clockVars, scanVars, read_buffer,
                    bat_last_sent, bat_now, error_count, chgVars, snapVars, asmVars, matchVars, main_pc, seen >>

\* connect returns (then sleep(1)) or raises
BatConnect ==
    /\ Running /\ bat_pc = "connect"
    /\ \/ /\ BATTERY_MONITOR' = IF BATTERY_MONITOR = NoClient THEN NoClient
                                ELSE Connected(BATTERY_MONITOR)
          /\ bat_pc' = "settle"
          /\ bat_wake' = Deadline(1)
          /\ UNCHANGED << BT_LOCK, ERROR_COUNT, hist >>
       \/ /\ CanFault
          /\ BT_LOCK' = Release
          /\ BatFault(BATTERY_MONITOR)
          /\ UNCHANGED BATTERY_MONITOR
    /\ UNCHANGED << SOLAR_CHARGER, DB, state, clockVars, scanVars, read_buffer,
                    bat_last_sent, bat_now, error_count, chgVars, snapVars, asmVars, matchVars, main_pc, seen >>

\* after sleep(1): read_gatt_char is called
BatSettle ==
    /\ Running /\ bat_pc = "settle" /\ Awake(bat_wake)
    /\ IF BATTERY_MONITOR = NoClient
       THEN /\ BT_LOCK' = Release
            /\ BatFault(BATTERY_MONITOR)
       ELSE /\ bat_pc' = "read"
            /\ UNCHANGED << BT_LOCK, ERROR_COUNT, hist, bat_wake >>
    /\ UNCHANGED << handleVars, DB, state, clockVars, scanVars, read_buffer,
                    bat_last_sent, bat_now, error_count, chgVars, snapVars, asmVars, matchVars, main_pc, seen >>

\* read_gatt_char returns and start_notify is called, or it raises
BatRead ==
    /\ Running /\ bat_pc = "read"
    /\ \/ /\ BATTERY_MONITOR # NoClient
          /\ bat_pc' = "subscribe"
          /\ UNCHANGED << BT_LOCK, ERROR_COUNT, hist, bat_wake >>
       \/ /\ CanFault \/ BATTERY_MONITOR = NoClient
          /\ BT_LOCK' = Release
          /\ BatFault(BATTERY_MONITOR)
    /\ UNCHANGED << handleVars, DB, state, clockVars, scanVars, read_buffer,
                    bat_last_sent, bat_now, error_count, chgVars, snapVars, asmVars, matchVars, main_pc, seen >>

\* start_notify returns, last_sent = time() and the refresh is written; or
\* start_notify raises
BatSubscribe ==
    /\ Running /\ bat_pc = "subscribe"
    /\ \/ /\ BATTERY_MONITOR # NoClient /\ BATTERY_MONITOR.is_connected
          /\ BATTERY_MONITOR' = Notifying(BATTERY_MONITOR)
          /\ bat_last_sent' = now
          /\ bat_pc' = "first_write"
          /\ seen' = Note([seen EXCEPT !.bat_sub = now, !.bat_decided = now,
                                       !.bat_failed = FALSE])
          /\ UNCHANGED << BT_LOCK, ERROR_COUNT, hist, bat_wake >>
       \/ /\ BATTERY_MONITOR = NoClient
          /\ bat_last_sent' = now
          /\ BT_LOCK' = Release
          /\ BatFault(BATTERY_MONITOR)
          /\ UNCHANGED << BATTERY_MONITOR, seen >>
       \/ /\ CanFault
          /\ BT_LOCK' = Release
          /\ BatFault(BATTERY_MONITOR)
          /\ UNCHANGED << BATTERY_MONITOR, bat_last_sent, seen >>
    /\ UNCHANGED << SOLAR_CHARGER, DB, state, clockVars, scanVars, read_buffer,
                    bat_now, error_count, chgVars, snapVars, asmVars, matchVars, main_pc >>

\* BatFirstWrite leaving last_sent unset instead of "last_sent = time()"
\* (line 337)
BatFirstWrite_Unstamped ==
    /\ Running /\ bat_pc = "first_write"
    /\ BT_LOCK' = Release
    /\ \/ /\ bat_last_sent' = NoTime
          /\ error_count' = 0
          /\ seen' = Note([seen EXCEPT !.bat_decided = now])
          /\ BatLoopTest(BATTERY_MONITOR)
       \/ /\ CanFault
          /\ BatFault(BATTERY_MONITOR)
          /\ UNCHANGED << bat_last_sent, error_count, seen >>
    /\ UNCHANGED << handleVars, DB, state, clockVars, scanVars, read_buffer,
                    bat_now, chgVars, snapVars, asmVars, matchVars, main_pc >>

\* the refresh after subscribing returns: the lock is left, last_sent and
\* error_count are set and the streaming loop is entered; or it raises
BatFirstWrite ==
    /\ Running /\ bat_pc = "first_write"
    /\ BT_LOCK' = Release
    /\ \/ /\ bat_last_sent' = now
          /\ error_count' = 0
          /\ seen' = Note([seen EXCEPT !.bat_decided = now])
          /\ BatLoopTest(BATTERY_MONITOR)
       \/ /\ CanFault
          /\ BatFault(BATTERY_MONITOR)
          /\ UNCHANGED << bat_last_sent, error_count, seen >>
    /\ UNCHANGED << handleVars, DB, state, clockVars, scanVars, read_buffer,
                    bat_now, chgVars, snapVars, asmVars, matchVars, main_pc >>

\* after sleep(10): now = time(), and the refresh if it is due
BatPoll ==
    /\ Running /\ bat_pc = "stream" /\ Awake(bat_wake)
    /\ bat_now' = now
    /\ \E due \in Due(bat_last_sent, BatteryWindow) :
        /\ seen' = IF due
                   THEN Note([seen EXCEPT !.bat_decided = now, !.bat_failed = FALSE])
                   ELSE seen
        /\ IF due
           THEN IF BT_LOCK # <<>>
                THEN /\ BT_LOCK' = Acquire("bat")
                     /\ bat_pc' = "refresh_wait"
                     /\ UNCHANGED << ERROR_COUNT, hist, bat_wake >>
                ELSE IF BATTERY_MONITOR = NoClient
                THEN /\ BatFault(BATTERY_MONITOR)
                     /\ UNCHANGED BT_LOCK
                ELSE /\ BT_LOCK' = Acquire("bat")
                     /\ bat_pc' = "refresh"
                     /\ UNCHANGED << ERROR_COUNT, hist, bat_wake >>
           ELSE /\ BatLoopTest(BATTERY_MONITOR)
                /\ UNCHANGED BT_LOCK
    /\ UNCHANGED << handleVars, DB, state, clockVars, scanVars, read_buffer,
                    bat_last_sent, error_count, chgVars, snapVars, asmVars, matchVars, main_pc >>

\* the lock is granted for the refresh: write_gatt_char is called
BatRefreshAcquired ==
    /\ Running /\ bat_pc = "refresh_wait" /\ Holds("bat")
    /\ IF BATTERY_MONITOR = NoClient
       THEN /\ BT_LOCK' = Release
            /\ BatFault(BATTERY_MONITOR)
       ELSE /\ bat_pc' = "refresh"
            /\ UNCHANGED << BT_LOCK, ERROR_COUNT, hist, bat_wake >>
    /\ UNCHANGED << handleVars, DB, state, clockVars, scanVars, read_buffer,
                    bat_last_sent, bat_now, error_count, chgVars, snapVars, asmVars, matchVars, main_pc, seen >>

\* BatRefresh without the "except BleakError" of lines 351-358: the first
\* BleakError of a refresh leaves the try block
BatRefresh_RaisesAtOnce ==
    /\ Running /\ bat_pc = "refresh"
    /\ BT_LOCK' = Release
    /\ \/ /\ bat_last_sent' = bat_now
          /\ error_count' = 0
          /\ UNCHANGED seen
          /\ BatLoopTest(BATTERY_MONITOR)
       \/ /\ CanFault
          /\ error_count' = error_count + 1
          /\ bat_last_sent' = NoTime
          /\ seen' = Note([seen EXCEPT !.bat_failed = TRUE])
          /\ BatFault(BATTERY_MONITOR)
    /\ UNCHANGED << handleVars, DB, state, clockVars, scanVars, read_buffer,
                    bat_now, chgVars, snapVars, asmVars, matchVars, main_pc >>

\* the refresh returns (last_sent = now), or raises BleakError, which is
\* counted and, past the limit, raised again
BatRefresh ==
    /\ Running /\ bat_pc = "refresh"
    /\ BT_LOCK' = Release
    /\ \/ /\ bat_last_sent' = bat_now
          /\ error_count' = 0
          /\ UNCHANGED seen
          /\ BatLoopTest(BATTERY_MONITOR)
       \/ /\ CanFault
          /\ error_count' = error_count + 1
          /\ bat_last_sent' = NoTime
          /\ seen' = Note([seen EXCEPT !.bat_failed = TRUE])
          /\ IF error_count + 1 > RefreshErrorLimit
             THEN BatFault(BATTERY_MONITOR)
             ELSE BatLoopTest(BATTERY_MONITOR)
    /\ UNCHANGED << handleVars, DB, state, clockVars, scanVars, read_buffer,
                    bat_now, chgVars, snapVars, asmVars, matchVars, main_pc >>

\* BatFaultDisconnect with "BATTERY_MONITOR = None" (line 365) not commented
\* out
BatFaultDisconnect_Discards ==
    /\ Running /\ bat_pc = "fault_disconnect"
    /\ \/ /\ BATTERY_MONITOR' = NoClient
          /\ CountError
          /\ bat_pc' = "cooldown"
          /\ bat_wake' = Deadline(5)
       \/ /\ CanFault
          /\ bat_pc' = "dead"
          /\ hist' = [hist EXCEPT !.died = "disconnect raised"]
          /\ UNCHANGED << BATTERY_MONITOR, ERROR_COUNT, bat_wake >>
    /\ UNCHANGED << SOLAR_CHARGER, BT_LOCK, DB, state, clockVars, scanVars,
                    read_buffer, bat_last_sent, bat_now, error_count, chgVars,
                    snapVars, asmVars, matchVars, main_pc, seen >>

\* the except block's disconnect (not under BT_LOCK) returns, the error is
\* counted and the 5 s sleep begins; or it raises, out of the except block
BatFaultDisconnect ==
    /\ Running /\ bat_pc = "fault_disconnect"
    /\ \/ /\ BATTERY_MONITOR' = IF BATTERY_MONITOR = NoClient THEN NoClient
                                ELSE Disconnected(BATTERY_MONITOR)
          /\ CountError
          /\ bat_pc' = "cooldown"
          /\ bat_wake' = Deadline(5)
       \/ /\ CanFault
          /\ bat_pc' = "dead"
          /\ hist' = [hist EXCEPT !.died = "disconnect raised"]
          /\ UNCHANGED << BATTERY_MONITOR, ERROR_COUNT, bat_wake >>
    /\ UNCHANGED << SOLAR_CHARGER, BT_LOCK, DB, state, clockVars, scanVars,
                    read_buffer, bat_last_sent, bat_now, error_count, chgVars,
                    snapVars, asmVars, matchVars, main_pc, seen >>

\* after sleep(5): back to the loop top and its sleep(1)
BatCooldown ==
    /\ Running /\ bat_pc = "cooldown" /\ Awake(bat_wake)
    /\ bat_pc' = "idle"
    /\ bat_wake' = Deadline(1)
    /\ UNCHANGED << globalVars, state, clockVars, scanVars, read_buffer,
                    bat_last_sent, bat_now, error_count, chgVars, snapVars,
                    asmVars, matchVars, main_pc, seen, hist >>

BatStep ==
    \/ BatWake
    \/ BatLockAcquired
    \/ BatConnect
    \/ BatSettle
    \/ BatRead
    \/ BatSubscribe
    \/ BatFirstWrite
    \/ BatPoll
    \/ BatRefreshAcquired
    \/ BatRefresh
    \/ BatFaultDisconnect
    \/ BatCooldown

-----------------------------------------------------------------------------
(* monitor_charger                                                         *)

\* ChgFault with the handler's "async with BT_LOCK" (line 440) entered from
\* inside the locked section that raised: the lock is asked for while held
ChgFault_InsideSection(sc, lock) ==
    IF sc # NoClient /\ sc.is_connected
    THEN /\ BT_LOCK' = Append(BT_LOCK, "chg")
         /\ chg_pc' = "fault_wait"
         /\ UNCHANGED << ERROR_COUNT, hist, chg_wake >>
    ELSE /\ BT_LOCK' = lock
         /\ CountError
         /\ chg_pc' = "cooldown"
         /\ chg_wake' = Deadline(5)

\* the except block up to its first await: the disconnect is under BT_LOCK
ChgFault(sc, lock) ==
    IF sc # NoClient /\ sc.is_connected
    THEN /\ BT_LOCK' = Append(lock, "chg")
         /\ chg_pc' = IF lock = <<>> THEN "fault_disconnect" ELSE "fault_wait"
         /\ UNCHANGED << ERROR_COUNT, hist, chg_wake >>
    ELSE /\ BT_LOCK' = lock
         /\ CountError
         /\ chg_pc' = "cooldown"
         /\ chg_wake' = Deadline(5)

\* "while SOLAR_CHARGER.is_connected"
ChgLoopTest(sc, lock) ==
    IF sc = NoClient THEN ChgFault(sc, lock)
    ELSE /\ BT_LOCK' = lock
         /\ chg_pc' = IF sc.is_connected THEN "stream" ELSE "idle"
         /\ chg_wake' = IF sc.is_connected THEN Deadline(ChargerPoll) ELSE Deadline(1)
         /\ UNCHANGED << ERROR_COUNT, hist >>

\* loop top after sleep(1)
ChgWake ==
    /\ Running /\ chg_pc = "idle" /\ Awake(chg_wake)
    /\ IF SOLAR_CHARGER = NoClient \/ BATTERY_MONITOR = NoClient
       THEN /\ chg_wake' = Deadline(1)
            /\ UNCHANGED << BT_LOCK, chg_pc, chg_last_sent >>
       ELSE /\ chg_last_sent' = NoTime
            /\ BT_LOCK' = Acquire("chg")
            /\ chg_pc' = IF BT_LOCK = <<>> THEN "connect" ELSE "lock_wait"
            /\ UNCHANGED chg_wake
    /\ UNCHANGED << ERROR_COUNT, handleVars, DB, state, clockVars, scanVars,
                    batVars, snapVars, asmVars, matchVars, main_pc, seen, hist >>

\* the lock is granted: SOLAR_CHARGER.connect is called
ChgLockAcquired ==
    /\ Running /\ chg_pc = "lock_wait" /\ Holds("chg")
    /\ IF SOLAR_CHARGER = NoClient
       THEN ChgFault(SOLAR_CHARGER, Release)
       ELSE /\ chg_pc' = "connect"
            /\ UNCHANGED << BT_LOCK, ERROR_COUNT, hist, chg_wake >>
    /\ UNCHANGED << handleVars, DB, state, clockVars, scanVars, batVars,
                    chg_last_sent, snapVars, asmVars, matchVars, main_pc, seen >>

\* connect returns and read_gatt_char is called, or connect raises
ChgConnect ==
    /\ Running /\ chg_pc = "connect"
    /\ \/ /\ SOLAR_CHARGER # NoClient
          /\ SOLAR_CHARGER' = Connected(SOLAR_CHARGER)
          /\ chg_pc' = "read"
          /\ UNCHANGED << BT_LOCK, ERROR_COUNT, hist, chg_wake >>
       \/ /\ CanFault
          /\ ChgFault(SOLAR_CHARGER, Release)
          /\ UNCHANGED SOLAR_CHARGER
    /\ UNCHANGED << BATTERY_MONITOR, DB, state, clockVars, scanVars, batVars,
                    chg_last_sent, snapVars, asmVars, matchVars, main_pc, seen >>

\* read_gatt_char returns and start_notify is called, or it raises
ChgRead ==
    /\ Running /\ chg_pc = "read"
    /\ \/ /\ SOLAR_CHARGER # NoClient
          /\ chg_pc' = "subscribe"
          /\ UNCHANGED << BT_LOCK, ERROR_COUNT, hist, chg_wake >>
       \/ /\ CanFault \/ SOLAR_CHARGER = NoClient
          /\ ChgFault(SOLAR_CHARGER, Release)
    /\ UNCHANGED << handleVars, DB, state, clockVars, scanVars, batVars,
                    chg_last_sent, snapVars, asmVars, matchVars, main_pc, seen >>

\* start_notify returns, the lock is left and the streaming loop is entered;
\* or it raises
ChgSubscribe ==
    /\ Running /\ chg_pc = "subscribe"
    /\ \/ /\ SOLAR_CHARGER = NoClient \/ SOLAR_CHARGER.is_connected
          /\ SOLAR_CHARGER' = IF SOLAR_CHARGER = NoClient THEN NoClient
                              ELSE Notifying(SOLAR_CHARGER)
          /\ seen' = Note([seen EXCEPT !.chg_sub = now, !.chg_decided = NoTime,
                                       !.chg_replied = FALSE])
          /\ ChgLoopTest(SOLAR_CHARGER, Release)
       \/ /\ CanFault
          /\ ChgFault(SOLAR_CHARGER, Release)
          /\ UNCHANGED << SOLAR_CHARGER, seen >>
    /\ UNCHANGED << BATTERY_MONITOR, DB, state, clockVars, scanVars, batVars,
                    chg_last_sent, snapVars, asmVars, matchVars, main_pc >>

\* ChgPoll without "last_sent = now" (line 428)
ChgPoll_Unstamped ==
    /\ Running /\ chg_pc = "stream" /\ Awake(chg_wake)
    /\ \E due \in Due(chg_last_sent, ChargerWindow) :
        /\ seen' = IF due
                   THEN Note([seen EXCEPT !.chg_sub = NoTime, !.chg_decided = now,
                                        !.chg_replied = FALSE])
                   ELSE seen
        /\ IF due
           THEN /\ UNCHANGED chg_last_sent
                /\ IF BT_LOCK # <<>>
                   THEN /\ BT_LOCK' = Acquire("chg")
                        /\ chg_pc' = "request_wait"
                        /\ UNCHANGED << ERROR_COUNT, hist, chg_wake >>
                   ELSE IF SOLAR_CHARGER = NoClient
                   THEN ChgFault(SOLAR_CHARGER, BT_LOCK)
                   ELSE /\ BT_LOCK' = Acquire("chg")
                        /\ chg_pc' = "request"
                        /\ UNCHANGED << ERROR_COUNT, hist, chg_wake >>
           ELSE /\ ChgLoopTest(SOLAR_CHARGER, BT_LOCK)
                /\ UNCHANGED chg_last_sent
    /\ UNCHANGED << handleVars, DB, state, clockVars, scanVars, batVars,
                    snapVars, asmVars, matchVars, main_pc >>

\* after sleep(2): now = time(); if the request is due, last_sent = now and
\* the request is written under the lock
ChgPoll ==
    /\ Running /\ chg_pc = "stream" /\ Awake(chg_wake)
    /\ \E due \in Due(chg_last_sent, ChargerWindow) :
        /\ seen' = IF due
                   THEN Note([seen EXCEPT !.chg_sub = NoTime, !.chg_decided = now,
                                        !.chg_replied = FALSE])
                   ELSE seen
        /\ IF due
           THEN /\ chg_last_sent' = now
                /\ IF BT_LOCK # <<>>
                   THEN /\ BT_LOCK' = Acquire("chg")
                        /\ chg_pc' = "request_wait"
                        /\ UNCHANGED << ERROR_COUNT, hist, chg_wake >>
                   ELSE IF SOLAR_CHARGER = NoClient
                   THEN ChgFault(SOLAR_CHARGER, BT_LOCK)
                   ELSE /\ BT_LOCK' = Acquire("chg")
                        /\ chg_pc' = "request"
                        /\ UNCHANGED << ERROR_COUNT, hist, chg_wake >>
           ELSE /\ ChgLoopTest(SOLAR_CHARGER, BT_LOCK)
                /\ UNCHANGED chg_last_sent
    /\ UNCHANGED << handleVars, DB, state, clockVars, scanVars, batVars,
                    snapVars, asmVars, matchVars, main_pc >>

\* the lock is granted for the request: write_gatt_char is called
ChgRequestAcquired ==
    /\ Running /\ chg_pc = "request_wait" /\ Holds("chg")
    /\ IF SOLAR_CHARGER = NoClient
       THEN ChgFault(SOLAR_CHARGER, Release)
       ELSE /\ chg_pc' = "request"
            /\ UNCHANGED << BT_LOCK, ERROR_COUNT, hist, chg_wake >>
    /\ UNCHANGED << handleVars, DB, state, clockVars, scanVars, batVars,
                    chg_last_sent, snapVars, asmVars, matchVars, main_pc, seen >>

\* the request returns or raises
ChgRequest ==
    /\ Running /\ chg_pc = "request"
    /\ \/ ChgLoopTest(SOLAR_CHARGER, Release)
       \/ CanFault /\ ChgFault(SOLAR_CHARGER, Release)
    /\ UNCHANGED << handleVars, DB, state, clockVars, scanVars, batVars,
                    chg_last_sent, snapVars, asmVars, matchVars, main_pc, seen >>

\* the lock is granted inside the except block: SOLAR_CHARGER.disconnect is
\* called; AttributeError here is raised out of the except block
ChgFaultAcquired ==
    /\ Running /\ chg_pc = "fault_wait" /\ Holds("chg")
    /\ IF SOLAR_CHARGER = NoClient
       THEN /\ BT_LOCK' = Release
            /\ chg_pc' = "dead"
            /\ hist' = [hist EXCEPT !.died = "AttributeError"]
       ELSE /\ chg_pc' = "fault_disconnect"
            /\ UNCHANGED << BT_LOCK, hist >>
    /\ UNCHANGED << ERROR_COUNT, handleVars, DB, state, clockVars, scanVars,
                    batVars, chg_last_sent, chg_wake, snapVars, asmVars, matchVars, main_pc, seen >>

\* the except block's disconnect returns: the lock is left, the error is
\* counted and the 5 s sleep begins; or it raises, out of the except block
ChgFaultDisconnect ==
    /\ Running /\ chg_pc = "fault_disconnect"
    /\ BT_LOCK' = Release
    /\ \/ /\ SOLAR_CHARGER' = IF SOLAR_CHARGER = NoClient THEN NoClient
                              ELSE Disconnected(SOLAR_CHARGER)
          /\ CountError
          /\ chg_pc' = "cooldown"
          /\ chg_wake' = Deadline(5)
       \/ /\ CanFault
          /\ chg_pc' = "dead"
          /\ hist' = [hist EXCEPT !.died = "disconnect raised"]
          /\ UNCHANGED << SOLAR_CHARGER, ERROR_COUNT, chg_wake >>
    /\ UNCHANGED << BATTERY_MONITOR, DB, state, clockVars, scanVars, batVars,
                    chg_last_sent, snapVars, asmVars, matchVars, main_pc, seen >>

\* after sleep(5): back to the loop top and its sleep(1)
ChgCooldown ==
    /\ Running /\ chg_pc = "cooldown" /\ Awake(chg_wake)
    /\ chg_pc' = "idle"
    /\ chg_wake' = Deadline(1)
    /\ UNCHANGED << globalVars, state, clockVars, scanVars, batVars,
                    chg_last_sent, snapVars, asmVars, matchVars, main_pc, seen, hist >>

ChgStep ==
    \/ ChgWake
    \/ ChgLockAcquired
    \/ ChgConnect
    \/ ChgRead
    \/ ChgSubscribe
    \/ ChgPoll
    \/ ChgRequestAcquired
    \/ ChgRequest
    \/ ChgFaultAcquired
    \/ ChgFaultDisconnect
    \/ ChgCooldown

-----------------------------------------------------------------------------
(* snapshot_task                                                           *)

\* SnapWake without "if state.timestamp != last_timestamp" (line 455)
SnapWake_EveryPoll ==
    /\ Running /\ snap_pc = "sleep" /\ Awake(snap_wake)
    /\ IF /\ DB
          /\ SOLAR_CHARGER # NoClient \/ BATTERY_MONITOR # NoClient
       THEN /\ last_timestamp' = state.timestamp
            /\ snap_pc' = "execute"
            /\ UNCHANGED snap_wake
       ELSE /\ snap_wake' = Deadline(1)
            /\ UNCHANGED << snap_pc, last_timestamp >>
    /\ UNCHANGED << globalVars, state, clockVars, scanVars, batVars, chgVars,
                    asmVars, matchVars, main_pc, hist, seen >>

\* after sleep(1): a new timestamp is remembered and the INSERT is executed
SnapWake ==
    /\ Running /\ snap_pc = "sleep" /\ Awake(snap_wake)
    /\ IF /\ DB
          /\ SOLAR_CHARGER # NoClient \/ BATTERY_MONITOR # NoClient
          /\ state.timestamp # last_timestamp
       THEN /\ last_timestamp' = state.timestamp
            /\ snap_pc' = "execute"
            /\ UNCHANGED snap_wake
       ELSE /\ snap_wake' = Deadline(1)
            /\ UNCHANGED << snap_pc, last_timestamp >>
    /\ UNCHANGED << globalVars, state, clockVars, scanVars, batVars, chgVars,
                    asmVars, matchVars, main_pc, hist, seen >>

\* DB.execute returns and DB.commit is called, or it raises: the exception is
\* logged and the loop goes on
SnapExecute ==
    /\ Running /\ snap_pc = "execute"
    /\ \/ /\ snap_pc' = "commit"
          /\ UNCHANGED snap_wake
       \/ /\ snap_pc' = "sleep"
          /\ snap_wake' = Deadline(1)
    /\ UNCHANGED << globalVars, state, clockVars, scanVars, batVars, chgVars,
                    last_timestamp, asmVars, matchVars, main_pc, hist, seen >>

\* DB.commit returns: the row is in the table; or it raises
SnapCommit ==
    /\ Running /\ snap_pc = "commit"
    /\ snap_pc' = "sleep"
    /\ snap_wake' = Deadline(1)
    /\ \/ seen' = Note([seen EXCEPT !.committed = last_timestamp])
       \/ UNCHANGED seen
    /\ UNCHANGED << globalVars, state, clockVars, scanVars, batVars, chgVars,
                    last_timestamp, asmVars, matchVars, main_pc, hist >>

SnapStep ==
    \/ SnapWake
    \/ SnapExecute
    \/ SnapCommit

-----------------------------------------------------------------------------
(* The devices and the clock                                               *)

\* a live-data frame as the battery monitor sends it (docstring of
\* decode_battery_monitor_data): bb 0530 c1 013886 d8 40 ee
BatteryFrame == << 187, 5, 48, 193, 1, 56, 134, 216, 64, 238 >>

\* a live-data frame without a field: the reading stays as it is
BatteryIdleFrame == << LIVE_DATA_START, DATA_END >>

\* a 43-byte home-data reply of the charger: 15.0 V, 2.00 A, 25 and 5 degrees
ChargerReply ==
    [ i \in 1..ChargerFrameLen |->
        CASE i = 1 -> 1 [] i = 2 -> 3 [] i = 3 -> 38
          [] i = 7 -> 150 [] i = 9 -> 200 [] i = 12 -> 25 [] i = 13 -> 5
          [] OTHER -> 0 ]

\* a reply that is not home data: the decoder passes over it
ChargerOtherReply == << 1, 3, 2, 0, 0 >>

\* the battery monitor notifies while the connection it was subscribed on is up
BatData(data) ==
    /\ Running
    /\ BATTERY_MONITOR # NoClient
    /\ BATTERY_MONITOR.is_connected /\ BATTERY_MONITOR.notifying
    /\ BatteryNotify(data)
    /\ UNCHANGED << globalVars, clockVars, scanVars, bat_pc, bat_now,
                    error_count, bat_wake, chgVars, snapVars, asmVars, matchVars, main_pc, hist, seen >>

ChgData(data) ==
    /\ Running
    /\ SOLAR_CHARGER # NoClient
    /\ SOLAR_CHARGER.is_connected /\ SOLAR_CHARGER.notifying
    /\ ChargerNotify(data)
    /\ seen' = Note([seen EXCEPT !.chg_replied = TRUE])
    /\ UNCHANGED << globalVars, clockVars, scanVars, batVars, chg_pc, chg_wake,
                    snapVars, asmVars, matchVars, main_pc, hist >>

\* the link to a device drops: its client reports is_connected False
BatLinkDrop ==
    /\ Running
    /\ BATTERY_MONITOR # NoClient /\ BATTERY_MONITOR.is_connected
    /\ BATTERY_MONITOR' = Disconnected(BATTERY_MONITOR)
    /\ UNCHANGED << ERROR_COUNT, SOLAR_CHARGER, BT_LOCK, DB, state, clockVars,
                    scanVars, batVars, chgVars, snapVars, asmVars, matchVars, main_pc, hist, seen >>

ChgLinkDrop ==
    /\ Running
    /\ SOLAR_CHARGER # NoClient /\ SOLAR_CHARGER.is_connected
    /\ SOLAR_CHARGER' = Disconnected(SOLAR_CHARGER)
    /\ UNCHANGED << ERROR_COUNT, BATTERY_MONITOR, BT_LOCK, DB, state, clockVars,
                    scanVars, batVars, chgVars, snapVars, asmVars, matchVars, main_pc, hist, seen >>

\* A task is runnable when the call it awaits has returned, its sleep is over
\* or the lock it waits for is its own. Where the clock runs, adapter and
\* database calls return within the second, and a second only passes once
\* no task that is followed is runnable.
BatRunnable ==
    \/ bat_pc \in { "connect", "read", "subscribe", "first_write", "refresh",
                    "fault_disconnect" }
    \/ bat_pc \in { "idle", "settle", "stream", "cooldown" } /\ now >= bat_wake
    \/ bat_pc \in { "lock_wait", "refresh_wait" } /\ Holds("bat")

ChgRunnable ==
    \/ chg_pc \in { "connect", "read", "subscribe", "request", "fault_disconnect" }
    \/ chg_pc \in { "idle", "stream", "cooldown" } /\ now >= chg_wake
    \/ chg_pc \in { "lock_wait", "request_wait", "fault_wait" } /\ Holds("chg")

SnapRunnable ==
    \/ snap_pc \in { "execute", "commit" }
    \/ snap_pc = "sleep" /\ now >= snap_wake

\* time() moves on by a second
Advance(limit) ==
    /\ timed /\ Running
    /\ now < limit
    /\ now' = now + 1
    /\ UNCHANGED << globalVars, state, timed, scanVars, batVars, chgVars,
                    snapVars, asmVars, matchVars, main_pc, hist, seen >>

-----------------------------------------------------------------------------
(* scan_devices, monitor_battery and monitor_charger together, after       *)
(* main() has opened the database and started them. The clock is not       *)
(* followed, and neither is the content of the notifications: what a        *)
(* notification does to last_sent is covered by Due going either way.      *)

Init ==
    /\ ERROR_COUNT = 0
    /\ BATTERY_MONITOR = NoClient
    /\ SOLAR_CHARGER = NoClient
    /\ BT_LOCK = <<>>
    /\ DB = TRUE
    /\ state = StateInit
    /\ now = Epoch /\ timed = FALSE
    /\ scan_pc = "sleep" /\ scan_attempts = 0 /\ scan_trigger = None
    /\ bat_pc = "idle" /\ read_buffer = <<>> /\ bat_last_sent = NoTime
    /\ bat_now = Epoch /\ error_count = 0 /\ bat_wake = 0
    /\ chg_pc = "idle" /\ chg_last_sent = NoTime /\ chg_wake = 0
    /\ snap_pc = "sleep" /\ last_timestamp = 0 /\ snap_wake = 0
    /\ asm_input = <<>> /\ asm_rest = <<>> /\ decoded = <<>>
    /\ hist = HistInit
    /\ seen = SeenInit
    /\ main_pc = "gather" /\ discovered = <<>> /\ CONFIG = Config

Next ==
    \/ ScanStep
    \/ BatStep
    \/ ChgStep
    \/ BatLinkDrop
    \/ ChgLinkDrop

Spec == Init /\ [][Next]_vars

\* asyncio runs every task that is ready: no task is left waiting forever
\* while it could take a step
FairSpec ==
    /\ Spec
    /\ WF_vars(ScanStep)
    /\ WF_vars(BatStep)
    /\ WF_vars(ChgStep)

-----------------------------------------------------------------------------
(* The two role tasks against the clock, from the moment a discovery pass  *)
(* has bound both roles. The scanner then has nothing to do.               *)

KeepInit ==
    /\ ERROR_COUNT = 0
    /\ BATTERY_MONITOR = Client("54:14")
    /\ SOLAR_CHARGER = Client("C8:47")
    /\ BT_LOCK = <<>>
    /\ DB = TRUE
    /\ state = StateInit
    /\ now = Epoch /\ timed = TRUE
    /\ scan_pc = "sleep" /\ scan_attempts = 0 /\ scan_trigger = None
    /\ bat_pc = "idle" /\ read_buffer = <<>> /\ bat_last_sent = NoTime
    /\ bat_now = Epoch /\ error_count = 0 /\ bat_wake = Epoch + 1
    /\ chg_pc = "idle" /\ chg_last_sent = NoTime /\ chg_wake = Epoch + 1
    /\ snap_pc = "sleep" /\ last_timestamp = 0 /\ snap_wake = Epoch + 1
    /\ asm_input = <<>> /\ asm_rest = <<>> /\ decoded = <<>>
    /\ hist = HistInit
    /\ seen = SeenInit
    /\ main_pc = "gather" /\ discovered = <<>> /\ CONFIG = Config

KeepTick == ~BatRunnable /\ ~ChgRunnable /\ Advance(MaxTime)

KeepNext ==
    \/ BatStep
    \/ ChgStep
    \/ BatData(BatteryIdleFrame)
    \/ ChgData(ChargerOtherReply)
    \/ KeepTick

KeepSpec == KeepInit /\ [][KeepNext]_vars

-----------------------------------------------------------------------------
(* snapshot_task against the clock while both roles stream                 *)

SnapMaxTime == 8        \* the clock stops here where snapshot_task is followed

SnapInit ==
    /\ ERROR_COUNT = 0
    /\ BATTERY_MONITOR = Notifying(Connected(Client("54:14")))
    /\ SOLAR_CHARGER = Notifying(Connected(Client("C8:47")))
    /\ BT_LOCK = <<>>
    /\ DB = TRUE
    /\ state = StateInit
    /\ now = Epoch /\ timed = TRUE
    /\ scan_pc = "sleep" /\ scan_attempts = 0 /\ scan_trigger = None
    /\ bat_pc = "stream" /\ read_buffer = <<>> /\ bat_last_sent = Epoch
    /\ bat_now = Epoch /\ error_count = 0 /\ bat_wake = Epoch + BatteryPoll
    /\ chg_pc = "stream" /\ chg_last_sent = NoTime /\ chg_wake = Epoch + ChargerPoll
    /\ snap_pc = "sleep" /\ last_timestamp = 0 /\ snap_wake = Epoch + 1
    /\ asm_input = <<>> /\ asm_rest = <<>> /\ decoded = <<>>
    /\ hist = HistInit
    /\ seen = SeenInit
    /\ main_pc = "gather" /\ discovered = <<>> /\ CONFIG = Config

SnapTick == ~SnapRunnable /\ Advance(SnapMaxTime)

SnapNext ==
    \/ SnapStep
    \/ BatData(BatteryFrame)
    \/ ChgData(ChargerReply)
    \/ SnapTick

SnapSpec == SnapInit /\ [][SnapNext]_vars

-----------------------------------------------------------------------------
(* The matching loop of a discovery pass on the devices found, from the    *)
(* end of the 10 s window                                                  *)

MaxFound == 3           \* devices found in a pass

\* Two battery monitors (which advertise both services), two chargers and a
\* device of another kind
Neighbours ==
    { [address |-> "54:14", service_uuids |->
            { BATTERY_MONITOR_DATA_SERVICE_UUID, SOLAR_CHARGER_DATA_SERVICE_UUID }],
      [address |-> "54:15", service_uuids |->
            { BATTERY_MONITOR_DATA_SERVICE_UUID, SOLAR_CHARGER_DATA_SERVICE_UUID }],
      [address |-> "C8:47", service_uuids |-> { SOLAR_CHARGER_DATA_SERVICE_UUID }],
      [address |-> "C8:48", service_uuids |-> { SOLAR_CHARGER_DATA_SERVICE_UUID }],
      [address |-> "00:0A", service_uuids |-> {}] }

\* the dictionary's values: one entry for an address
Found ==
    { r \in SeqsUpTo(Neighbours, MaxFound) :
        \A i, j \in 1..Len(r) : i # j => r[i].address # r[j].address }

\* the addresses the operator may have put in the config file
Configured ==
    { [battery_monitor_addr |-> b, solar_charger_addr |-> c] :
        b \in { "", "54:14", "00:0A" }, c \in { "", "C8:47", "54:15" } }

MatchInit ==
    /\ ERROR_COUNT = 0
    /\ BATTERY_MONITOR \in { NoClient, Client("54:14") }
    /\ SOLAR_CHARGER \in { NoClient, Client("C8:47") }
    /\ BATTERY_MONITOR = NoClient \/ SOLAR_CHARGER = NoClient
    /\ BT_LOCK = << "scan" >>
    /\ DB = TRUE
    /\ state = StateInit
    /\ now = Epoch /\ timed = FALSE
    /\ scan_pc = "scan_window" /\ scan_attempts = 0 /\ scan_trigger = None
    /\ bat_pc = "idle" /\ read_buffer = <<>> /\ bat_last_sent = NoTime
    /\ bat_now = Epoch /\ error_count = 0 /\ bat_wake = 0
    /\ chg_pc = "idle" /\ chg_last_sent = NoTime /\ chg_wake = 0
    /\ snap_pc = "sleep" /\ last_timestamp = 0 /\ snap_wake = 0
    /\ asm_input = <<>> /\ asm_rest = <<>> /\ decoded = <<>>
    /\ hist = HistInit
    /\ seen = SeenInit
    /\ main_pc = "gather"
    /\ discovered \in Found
    /\ CONFIG \in Configured

\* the window ends and the devices found are matched
ScanMatch ==
    /\ Running /\ scan_pc = "scan_window"
    /\ LET h == MatchAll(<< BATTERY_MONITOR, SOLAR_CHARGER >>, discovered, CONFIG) IN
        /\ BATTERY_MONITOR' = h[1]
        /\ SOLAR_CHARGER' = h[2]
    /\ scan_pc' = "scan_settle"
    /\ UNCHANGED << ERROR_COUNT, BT_LOCK, DB, state, clockVars, scan_attempts,
                    scan_trigger, batVars, chgVars, snapVars, asmVars, matchVars,
                    main_pc, seen, hist >>

MatchNext == ScanMatch

MatchSpec == MatchInit /\ [][MatchNext]_vars

-----------------------------------------------------------------------------
(* The finally clause of main(): fini_db() and then cleanup_bt(), from the *)
(* gather that waits for the four tasks. The tasks are not followed while  *)
(* main() ends.                                                            *)

Handles(d) ==
    { NoClient, Client(d), Connected(Client(d)), Notifying(Connected(Client(d))) }

ShutdownInit ==
    /\ ERROR_COUNT \in 0..MaxErrorCount
    /\ BATTERY_MONITOR \in Handles("54:14")
    /\ SOLAR_CHARGER \in Handles("C8:47")
    /\ BT_LOCK = <<>>
    /\ DB = TRUE
    /\ state = StateInit
    /\ now = Epoch /\ timed = FALSE
    /\ scan_pc = "sleep" /\ scan_attempts = 0 /\ scan_trigger = None
    /\ bat_pc = "idle" /\ read_buffer = <<>> /\ bat_last_sent = NoTime
    /\ bat_now = Epoch /\ error_count = 0 /\ bat_wake = 0
    /\ chg_pc = "idle" /\ chg_last_sent = NoTime /\ chg_wake = 0
    /\ snap_pc = "sleep" /\ last_timestamp = 0 /\ snap_wake = 0
    /\ asm_input = <<>> /\ asm_rest = <<>> /\ decoded = <<>>
    /\ hist = HistInit
    /\ seen = SeenInit
    /\ main_pc = "gather"
    /\ discovered = <<>>
    /\ CONFIG = Config

IsConnected(c) == c # NoClient /\ c.is_connected

\* cleanup_bt() from its second if
CleanupCharger == IF IsConnected(SOLAR_CHARGER) THEN "cleanup_sc" ELSE "done"

\* the gather raises (a task's exception, or the cancellation of main() when
\* the process is interrupted): the finally clause calls fini_db()
MainGatherRaises ==
    /\ main_pc = "gather"
    /\ main_pc' = "fini_db"
    /\ UNCHANGED << ERROR_COUNT, handleVars, BT_LOCK, DB, state, clockVars,
                    scanVars, batVars, chgVars, snapVars, asmVars, matchVars,
                    seen, hist >>

\* DB.close() returns and cleanup_bt() runs to its first await or to its
\* end; or DB.close() raises, out of the finally clause
MainFiniDb ==
    /\ main_pc = "fini_db"
    /\ \/ /\ DB' = FALSE
          /\ main_pc' = IF IsConnected(BATTERY_MONITOR) THEN "cleanup_bm"
                        ELSE CleanupCharger
       \/ /\ DB
          /\ main_pc' = "raised"
          /\ UNCHANGED DB
    /\ UNCHANGED << ERROR_COUNT, handleVars, BT_LOCK, state, clockVars,
                    scanVars, batVars, chgVars, snapVars, asmVars, matchVars,
                    seen, hist >>

\* BATTERY_MONITOR.disconnect() returns and cleanup_bt() goes on to the
\* charger; or it raises, out of cleanup_bt() and of main()
MainDisconnectBattery ==
    /\ main_pc = "cleanup_bm"
    /\ \/ /\ BATTERY_MONITOR' = Disconnected(BATTERY_MONITOR)
          /\ main_pc' = CleanupCharger
       \/ /\ main_pc' = "raised"
          /\ UNCHANGED BATTERY_MONITOR
    /\ UNCHANGED << ERROR_COUNT, SOLAR_CHARGER, BT_LOCK, DB, state, clockVars,
                    scanVars, batVars, chgVars, snapVars, asmVars, matchVars,
                    seen, hist >>

\* SOLAR_CHARGER.disconnect() returns, or raises out of main()
MainDisconnectCharger ==
    /\ main_pc = "cleanup_sc"
    /\ \/ /\ SOLAR_CHARGER' = Disconnected(SOLAR_CHARGER)
          /\ main_pc' = "done"
       \/ /\ main_pc' = "raised"
          /\ UNCHANGED SOLAR_CHARGER
    /\ UNCHANGED << ERROR_COUNT, BATTERY_MONITOR, BT_LOCK, DB, state, clockVars,
                    scanVars, batVars, chgVars, snapVars, asmVars, matchVars,
                    seen, hist >>

ShutdownNext ==
    \/ MainGatherRaises
    \/ MainFiniDb
    \/ MainDisconnectBattery
    \/ MainDisconnectCharger

ShutdownSpec == ShutdownInit /\ [][ShutdownNext]_vars

-----------------------------------------------------------------------------
(* The battery monitor sends one frame of (value bytes, field id) pairs,   *)
(* which the callback cuts out and hands to decode_battery_monitor_data    *)

MaxPairs == 2           \* pairs in the frame

\* value bytes: 02 45, 01, 00, 98, and 1a, which int() cannot read
FieldValues == { << 2, 69 >>, << 1 >>, << 0 >>, << 152 >>, << 26 >> }

\* the field ids the decoder knows, and one it passes over
FieldIds == Recognised \cup { POWER }

FieldPairs == { Append(v, c) : v \in FieldValues, c \in FieldIds }

\* start marker, pairs, the last byte (not a pair's, as in bb 0530 c1 013886
\* d8 40 ee), end marker
FieldFrames ==
    { << LIVE_DATA_START >> \o Flatten(ps) \o << 64, DATA_END >> :
        ps \in SeqsUpTo(FieldPairs, MaxPairs) }

FieldInit ==
    /\ ERROR_COUNT = 0
    /\ BATTERY_MONITOR = Notifying(Connected(Client("54:14")))
    /\ SOLAR_CHARGER = Notifying(Connected(Client("C8:47")))
    /\ BT_LOCK = <<>>
    /\ DB = TRUE
    /\ state = StateInit
    /\ now = Epoch /\ timed = FALSE
    /\ scan_pc = "sleep" /\ scan_attempts = 0 /\ scan_trigger = None
    /\ bat_pc = "stream" /\ read_buffer = <<>> /\ bat_last_sent = Epoch
    /\ bat_now = Epoch /\ error_count = 0 /\ bat_wake = 0
    /\ chg_pc = "stream" /\ chg_last_sent = NoTime /\ chg_wake = 0
    /\ snap_pc = "sleep" /\ last_timestamp = 0 /\ snap_wake = 0
    /\ asm_input \in FieldFrames
    /\ asm_rest = asm_input
    /\ decoded = <<>>
    /\ hist = HistInit
    /\ seen = SeenInit
    /\ main_pc = "gather" /\ discovered = <<>> /\ CONFIG = Config

\* the frame arrives as one notification
FieldDeliver == asm_rest # <<>> /\ Deliver(Len(asm_rest))

FieldNext == FieldDeliver

FieldSpec == FieldInit /\ [][FieldNext]_vars

-----------------------------------------------------------------------------
(* monitor_charger's callback on one notification, while the charger       *)
(* streams                                                                 *)

\* A 43-byte packet: the bytes the decoder reads are given, every other byte
\* is its own 0-based offset
ChargerPacket(h, v, c, ct, bt, pv, st, e) ==
    [ i \in 1..ChargerFrameLen |->
        CASE i \in 1..3 -> h[i]
          [] i \in 6..7 -> v[i - 5]
          [] i \in 8..9 -> c[i - 7]
          [] i = 12 -> ct
          [] i = 13 -> bt
          [] i \in 20..21 -> pv[i - 19]
          [] i = 29 -> st
          [] i \in 34..37 -> e[i - 33]
          [] OTHER -> i - 1 ]

\* home-data replies (header 01 03 26)
HomeReplies ==
    { ChargerPacket(<< 1, 3, 38 >>, v, c, 25, bt, pv, st, e) :
        v \in { << 0, 150 >>, << 1, 44 >> },
        c \in { << 0, 200 >>, << 2, 88 >> },
        bt \in { 5, 127, 128, 200 },
        pv \in { << 0, 185 >>, << 1, 0 >> },
        st \in { 0, 2 },
        e \in { << 0, 0, 1, 2 >>, << 1, 0, 0, 0 >> } }

\* what else the data characteristic may notify: other headers, packets cut
\* short or run together, replies to other requests
OtherPackets ==
    { ChargerPacket(h, << 0, 150 >>, << 0, 200 >>, 25, bt, << 0, 185 >>, 2,
                    << 0, 0, 1, 2 >>) :
        h \in { << 2, 3, 38 >>, << 1, 4, 38 >>, << 1, 3, 37 >>, << 1, 3, 2 >> },
        bt \in { 5, 200 } }
    \cup { SubSeq(p, 1, n) : p \in { ChargerReply }, n \in { 1, 2, 3, 5, 42 } }
    \cup { p \o << 0 >> : p \in HomeReplies }
    \cup { ChargerOtherReply }

DecodeInit ==
    /\ ERROR_COUNT = 0
    /\ BATTERY_MONITOR = Notifying(Connected(Client("54:14")))
    /\ SOLAR_CHARGER = Notifying(Connected(Client("C8:47")))
    /\ BT_LOCK = <<>>
    /\ DB = TRUE
    /\ state = StateInit
    /\ now \in { Epoch, Epoch + 1 } /\ timed = FALSE
    /\ scan_pc = "sleep" /\ scan_attempts = 0 /\ scan_trigger = None
    /\ bat_pc = "stream" /\ read_buffer = <<>> /\ bat_last_sent = Epoch
    /\ bat_now = Epoch /\ error_count = 0 /\ bat_wake = 0
    /\ chg_pc = "stream" /\ chg_last_sent = Epoch /\ chg_wake = 0
    /\ snap_pc = "sleep" /\ last_timestamp = 0 /\ snap_wake = 0
    /\ asm_input \in HomeReplies \cup OtherPackets
    /\ asm_rest = asm_input
    /\ decoded = <<>>
    /\ hist = HistInit
    /\ seen = SeenInit
    /\ main_pc = "gather" /\ discovered = <<>> /\ CONFIG = Config

\* the packet arrives as one notification
ChgDeliver ==
    /\ asm_rest # <<>>
    /\ SOLAR_CHARGER # NoClient
    /\ SOLAR_CHARGER.is_connected /\ SOLAR_CHARGER.notifying
    /\ ChargerNotify(asm_rest)
    /\ asm_rest' = <<>>
    /\ UNCHANGED << globalVars, clockVars, scanVars, batVars, chg_pc, chg_wake,
                    snapVars, asm_input, decoded, hist, seen, matchVars,
                    main_pc >>

DecodeNext == ChgDeliver

DecodeSpec == DecodeInit /\ [][DecodeNext]_vars

-----------------------------------------------------------------------------
(* Properties                                                              *)

\* adapter calls in progress, by task
ScanOperating == scan_pc \in { "scan_window", "scan_settle" }
BatOperating ==
    bat_pc \in { "connect", "read", "subscribe", "first_write", "refresh",
                 "fault_disconnect" }
ChgOperating ==
    chg_pc \in { "connect", "read", "subscribe", "request", "fault_disconnect" }

\* C2: every adapter-level operation in progress (discovery scan, connect,
\* disconnect, read, write, subscribe) belongs to the task that holds BT_LOCK,
\* so no two of them are in progress at once.
C2_RadioMutex ==
    /\ ScanOperating => Holds("scan")
    /\ BatOperating => Holds("bat")
    /\ ChgOperating => Holds("chg")

Unbound == BATTERY_MONITOR = NoClient /\ SOLAR_CHARGER = NoClient
ScanAsleep == scan_pc \in { "sleep", "failed", "raised" }

\* C3: when the scanner comes round with ERROR_COUNT at 5 or more it starts a
\* power-cycle, which unbinds both roles; it starts one for the error count
\* only then; and when that power-cycle is over ERROR_COUNT is zero and both
\* roles are unbound, so that the same crossing starts no second one.
C3_ErrorReset ==
    [][ /\ (ScanAsleep /\ scan_pc' # scan_pc /\ ERROR_COUNT >= ErrorLimit)
            => /\ scan_pc' \in { "reset_off", "failed" }
               /\ Unbound'
               /\ scan_pc' = "reset_off" => scan_trigger' = "errors"
        /\ (scan_trigger # "errors" /\ scan_trigger' = "errors")
            => ERROR_COUNT >= ErrorLimit
        /\ (scan_pc = "reset_on" /\ scan_trigger = "errors" /\ scan_pc' # scan_pc)
            => /\ ERROR_COUNT' = 0
               /\ Unbound'
               /\ scan_pc' \in { "scan_window", "lock_wait" }
      ]_vars

\* the power-cycle for a crossing has been made and its last sleep is running
C3_Witness ==
    /\ scan_pc = "reset_on" /\ scan_trigger = "errors"
    /\ ERROR_COUNT >= ErrorLimit
    /\ Unbound

BatPolls == bat_pc = "stream" /\ (bat_pc' # "stream" \/ bat_wake' # bat_wake)
ChgPolls == chg_pc = "stream" /\ (chg_pc' # "stream" \/ chg_wake' # chg_wake)
BatDecides == BatPolls /\ bat_pc' \in { "refresh", "refresh_wait" }
ChgDecides == ChgPolls /\ chg_pc' \in { "request", "request_wait" }

\* a poll at which last_sent is unset or older than the window decides a write
WritesWhenDue ==
    /\ (BatPolls /\ (bat_last_sent = NoTime \/ now - bat_last_sent > BatteryWindow))
        => bat_pc' # "stream"
    /\ (ChgPolls /\ (chg_last_sent = NoTime \/ now - chg_last_sent > ChargerWindow))
        => chg_pc' # "stream"

C5_RolesNeverDie ==
    (bat_pc = "dead" \/ chg_pc = "dead") => hist.died = "disconnect raised"

\* C6: after a power command has failed, the scanner runs a discovery pass
\* again (unless the process has shut down).
C6_ScansAfterPowerFailure ==
    [](scan_pc = "failed" => <>(scan_pc = "scan_window" \/ ~Running))

\* C7: when a reset is over, both roles are unbound and ERROR_COUNT and
\* scan_attempts are both zero.
C7_ResetZeroesAll ==
    [][ (scan_pc = "reset_on" /\ scan_pc' # scan_pc)
            => /\ Unbound'
               /\ ERROR_COUNT' = 0
               /\ scan_attempts' = 0
      ]_vars

BothBound == BATTERY_MONITOR # NoClient /\ SOLAR_CHARGER # NoClient
PassEnds == scan_pc = "scan_settle" /\ scan_pc' \notin { "scan_settle", "raised" }

C9_NoTimestampSkipped ==
    [][ state'.timestamp # state.timestamp
            => state.timestamp = seen.committed
      ]_vars

\* C10, as claimed: start_notify of the battery monitor is followed by the
\* refresh write, and after that no role decides a write until its window has
\* passed since its subscription.
C10_NoEarlyWrite ==
    [][ /\ (bat_pc = "subscribe" /\ BATTERY_MONITOR'.notifying)
            => bat_pc' = "first_write"
        /\ BatDecides => now - seen.bat_sub >= BatteryWindow
        /\ (ChgDecides /\ seen.chg_sub # NoTime)
            => now - seen.chg_sub >= ChargerWindow
      ]_vars

\* C10, amended: start_notify of the battery monitor is followed by the refresh
\* write, and after that the battery task decides no write until more than
\* 60 s after the subscription; the charger task decides its first request
\* at its first poll after subscribing.
C10_AfterSubscribe ==
    [][ /\ (bat_pc = "subscribe" /\ BATTERY_MONITOR'.notifying)
            => bat_pc' = "first_write"
        /\ BatDecides => now - seen.bat_sub > BatteryWindow
        /\ (ChgPolls /\ seen.chg_sub # NoTime) => ChgDecides
      ]_vars

\* the battery monitor has streamed for a window with no write but the one
\* after subscribing, while the charger has been sent requests
C10_Witness ==
    /\ bat_pc = "stream" /\ seen.bat_sub # NoTime
    /\ seen.bat_decided = seen.bat_sub
    /\ now - seen.bat_sub >= BatteryWindow
    /\ seen.chg_decided # NoTime

-----------------------------------------------------------------------------
(* The frame assembler, notification by notification                       *)

\* the 1-based position of the first byte of s that is in S, or 0
FirstOf(s, S) ==
    IF \E i \in 1..Len(s) : s[i] \in S
    THEN CHOOSE i \in 1..Len(s) : s[i] \in S /\ \A j \in 1..(i - 1) : s[j] \notin S
    ELSE 0

\* a notification is delivered in this step, and the buffer the callback
\* then works on: what it held and the bytes delivered
Delivers == asm_rest' # asm_rest
Delivered == SubSeq(asm_rest, 1, Len(asm_rest) - Len(asm_rest'))
Buffered == read_buffer \o Delivered

\* C11: when a notification is processed and the first 0xEE of the buffer lies
\* before its first 0xBB or 0xAA, the buffer is left without the bytes up to and
\* including that 0xEE, and no frame is handed to the decoder.
C11_DiscardThroughEnd ==
    [][ Delivers =>
            LET end == FirstOf(Buffered, { DATA_END })
                start == FirstOf(Buffered, { LIVE_DATA_START, RECORDED_DATA_START })
                rest == SubSeq(Buffered, end + 1, Len(Buffered))
            IN (end # 0 /\ start # 0 /\ end < start)
                => /\ read_buffer' = IF Len(rest) > ReadBufferMax THEN <<>> ELSE rest
                   /\ decoded' = decoded
      ]_vars

\* a stray 0xEE ahead of a frame start has been dropped and the start kept
C11_Witness ==
    /\ asm_rest = <<>> /\ Len(asm_input) >= 3
    /\ asm_input[1] = DATA_END /\ asm_input[2] = LIVE_DATA_START
    /\ read_buffer = Tail(asm_input)
    /\ decoded = <<>>

-----------------------------------------------------------------------------
(* The charger's decoder                                                   *)

\* 43 bytes that begin 01 03 26
HomeData(p) == Len(p) = 43 /\ p[1] = 1 /\ p[2] = 3 /\ p[3] = 38

\* C13: a charger notification that is not 43 bytes long or does not begin
\* 01 03 26 changes no field of the reading and not its timestamp, raises
\* nothing in the task and is not counted in ERROR_COUNT.
C13_OtherShapesIgnored ==
    [][ (Delivers /\ ~HomeData(asm_rest))
            => /\ state' = state
               /\ ERROR_COUNT' = ERROR_COUNT
               /\ chg_pc' = chg_pc /\ hist' = hist
      ]_vars

\* a home-data reply with one byte too many has been passed over
C13_Witness ==
    /\ asm_rest = <<>>
    /\ Len(asm_input) = 44 /\ HomeData(SubSeq(asm_input, 1, 43))
    /\ state = StateInit
    /\ ERROR_COUNT = 0

\* C14: after a 43-byte notification that begins 01 03 26 the reading holds
\* voltage = bytes[5:7] / 10, current = bytes[7:9] / 100, charger temperature
\* = byte[11], battery temperature = byte[12] below 128 and 128 - byte[12]
\* from 128 on, panel voltage = bytes[19:21] / 10, total energy =
\* bytes[33:37], status = byte[28] (all big-endian), and the timestamp is the
\* time of the notification.
C14_HomeDataDecoded ==
    (asm_rest = <<>> /\ HomeData(asm_input)) =>
        LET b(i) == asm_input[i + 1] IN
        /\ state.charger_voltage = Frac(256 * b(5) + b(6), 10)
        /\ state.charger_current = Frac(256 * b(7) + b(8), 100)
        /\ state.charger_temp = b(11)
        /\ state.battery_temp = IF b(12) < 128 THEN b(12) ELSE 128 - b(12)
        /\ state.solar_panel_voltage = Frac(256 * b(19) + b(20), 10)
        /\ state.charger_total_energy =
                16777216 * b(33) + 65536 * b(34) + 256 * b(35) + b(36)
        /\ state.charger_status = b(28)
        /\ state.timestamp = now

\* byte[12] = 200 has been stored as -72 and bytes[5:7] = 00 96 as 15.0
C14_Witness ==
    /\ asm_rest = <<>> /\ HomeData(asm_input)
    /\ asm_input[13] = 200 /\ state.battery_temp = -72
    /\ asm_input[6] = 0 /\ asm_input[7] = 150 /\ state.charger_voltage = << 15, 1 >>
    /\ state.timestamp = now

-----------------------------------------------------------------------------
(* The battery monitor's decoder                                           *)

\* The (value bytes, field id) pairs of a frame's interior: bytes gather as
\* the value until a byte of 0xA0 or more comes with a value gathered
RECURSIVE PairsFrom(_, _)
PairsFrom(bytes, pending) ==
    IF bytes = <<>> THEN <<>>
    ELSE IF Head(bytes) >= 160 /\ pending # <<>>
    THEN << [ value |-> pending, id |-> Head(bytes) ] >>
            \o PairsFrom(Tail(bytes), <<>>)
    ELSE PairsFrom(Tail(bytes), Append(pending, Head(bytes)))

\* the pairs of the frame sent: between the start marker and the last byte
\* before the end marker
SentPairs == PairsFrom(SubSeq(asm_input, 2, Len(asm_input) - 2), <<>>)

\* the hex digits of the value bytes, and the decimal number they spell
HexDigits(value) ==
    [ i \in 1..(2 * Len(value)) |->
        IF i % 2 = 1 THEN value[(i + 1) \div 2] \div 16 ELSE value[i \div 2] % 16 ]

Spells(value) == \A i \in 1..(2 * Len(value)) : HexDigits(value)[i] <= 9

RECURSIVE DecimalOf(_)
DecimalOf(digits) ==
    IF digits = <<>> THEN 0
    ELSE 10 * DecimalOf(SubSeq(digits, 1, Len(digits) - 1)) + digits[Len(digits)]

Number(value) == DecimalOf(HexDigits(value))

\* the last pair with the field id whose value bytes spell a number, or 0
LastOf(id) ==
    LET K == { k \in 1..Len(SentPairs) :
                SentPairs[k].id = id /\ Spells(SentPairs[k].value) }
    IN IF K = {} THEN 0 ELSE CHOOSE k \in K : \A j \in K : j <= k

\* C15: once a frame has been decoded, every field of voltage (0xC0),
\* current (0xC1), remaining_ah (0xD2), total_discharge_energy (0xD3) and
\* total_charge_energy (0xD4) that the frame has a pair for holds the number
\* spelled by the hex digits of the pair's value bytes, divided by 100, 100,
\* 1000, 100 and 100, and is_charging (0xD1) and is_temp_in_fahrenheit (0xF7)
\* hold whether that number is 1.
C15_PairsDecoded ==
    asm_rest = <<>> =>
        LET n(id) == Number(SentPairs[LastOf(id)].value) IN
        /\ LastOf(VOLTAGE) # 0 => state.battery_voltage = Frac(n(VOLTAGE), 100)
        /\ LastOf(CURRENT) # 0 => state.battery_current = Frac(n(CURRENT), 100)
        /\ LastOf(REMAINING_AH) # 0
            => state.battery_ah = Frac(n(REMAINING_AH), 1000)
        /\ LastOf(TOTAL_DISCHARGE_ENERGY) # 0
            => state.battery_total_discharge_energy
                    = Frac(n(TOTAL_DISCHARGE_ENERGY), 100)
        /\ LastOf(TOTAL_CHARGE_ENERGY) # 0
            => state.battery_total_charge_energy
                    = Frac(n(TOTAL_CHARGE_ENERGY), 100)
        /\ LastOf(IS_CHARGING) # 0
            => state.battery_is_charging = (n(IS_CHARGING) = 1)
        /\ LastOf(IS_TEMP_IN_F) # 0
            => state.battery_is_temp_in_f = (n(IS_TEMP_IN_F) = 1)

\* the pairs the decoder gets to: those before the first pair with a field id
\* it knows whose value bytes spell no number
Reached ==
    { k \in 1..Len(SentPairs) :
        \A j \in 1..k : SentPairs[j].id \in Recognised => Spells(SentPairs[j].value) }

LastReached(id) ==
    LET K == { k \in Reached : SentPairs[k].id = id }
    IN IF K = {} THEN 0 ELSE CHOOSE k \in K : \A j \in K : j <= k

\* the unit flag when pair k is decoded: set by the last 0xF7 pair before it,
\* Fahrenheit until there has been one
FahrenheitAt(k) ==
    LET K == { j \in 1..(k - 1) : SentPairs[j].id = IS_TEMP_IN_F }
    IN IF K = {} THEN TRUE
       ELSE Number(SentPairs[CHOOSE j \in K : \A i \in K : i <= j].value) = 1

\* C16: once a 0xD9 pair has been decoded, room_temp is, with the unit flag
\* Fahrenheit at that moment, (value - 32 - 5) * 5/9 rounded to one decimal
\* (the tenth nearest to it), and value - 100 otherwise.
C16_RoomTemperature ==
    (asm_rest = <<>> /\ LastReached(TEMP_DATA) # 0) =>
        LET k == LastReached(TEMP_DATA)
            value == Number(SentPairs[k].value)
            near == (50 * (value - 32 - 5)) \div 9
        IN IF FahrenheitAt(k)
           THEN \E t \in (near - 1)..(near + 1) :
                    /\ state.room_temp = Frac(t, 10)
                    /\ 2 * Abs(9 * t - 50 * (value - 32 - 5)) <= 9
           ELSE state.room_temp = Frac(value - 100, 1)

\* the frame bb 98 d9 40 ee has been decoded with the flag at its default:
\* 33.9 is stored
C16_Witness ==
    /\ asm_rest = <<>>
    /\ asm_input = << LIVE_DATA_START, 152, TEMP_DATA, 64, DATA_END >>
    /\ state.room_temp = << 339, 10 >>

-----------------------------------------------------------------------------
(* The matching of a discovery pass                                        *)

Matched == scan_pc = "scan_window" /\ scan_pc' = "scan_settle"

AdvertisesBattery(d) == BATTERY_MONITOR_DATA_SERVICE_UUID \in d.service_uuids

\* the device is one the battery-monitor role is matched to: by the
\* configured address or by the service it advertises
ForBattery(d) == d.address = CONFIG.battery_monitor_addr \/ AdvertisesBattery(d)

\* C17: in a pass, a device found that advertises the battery-monitor service
\* is bound to the BatteryMonitor role if the role is unbound when its turn
\* comes (unbound before the pass, and no device found before it is one for
\* that role), whether or not it advertises the charger service too; and it
\* is bound to the SolarCharger role only if its address is the one
\* configured for the charger.
C17_BatteryServiceWins ==
    [][ Matched =>
            \A i \in 1..Len(discovered) :
                LET d == discovered[i] IN
                AdvertisesBattery(d) =>
                    /\ ( /\ BATTERY_MONITOR = NoClient
                         /\ \A j \in 1..(i - 1) : ~ForBattery(discovered[j]) )
                        => BATTERY_MONITOR' = Client(d.address)
                    /\ (SOLAR_CHARGER = NoClient /\ SOLAR_CHARGER' = Client(d.address))
                        => d.address = CONFIG.solar_charger_addr
      ]_vars

\* with no address configured, two battery monitors were found: the first
\* is bound to the BatteryMonitor role and the second to none
C17_Witness ==
    /\ scan_pc = "scan_settle"
    /\ CONFIG = Config
    /\ Len(discovered) = 2
    /\ discovered[1].address = "54:15" /\ discovered[2].address = "54:14"
    /\ BATTERY_MONITOR = Client("54:15")
    /\ SOLAR_CHARGER = NoClient

\* C18: in a pass that finds the device with the address configured for an
\* unbound role, the role is bound to that device, whatever else was found
\* and in whatever order. (For the charger: a device that is not one for the
\* battery monitor.)
C18_AddressPreferred ==
    [][ Matched =>
            \A i \in 1..Len(discovered) :
                LET d == discovered[i] IN
                /\ (BATTERY_MONITOR = NoClient /\ d.address = CONFIG.battery_monitor_addr)
                    => BATTERY_MONITOR' = Client(d.address)
                /\ ( /\ SOLAR_CHARGER = NoClient
                     /\ d.address = CONFIG.solar_charger_addr
                     /\ ~ForBattery(d) )
                    => SOLAR_CHARGER' = Client(d.address)
      ]_vars

-----------------------------------------------------------------------------
(* The scanner's loop                                                      *)

PassStarts == scan_pc' = "scan_window" /\ scan_pc # "scan_window"
LockAsked == scan_pc' = "lock_wait" /\ scan_pc # "lock_wait"

\* the scanner goes for the radio lock and starts a pass only with a role
\* unbound
ScansOnlyUnbound ==
    [][ /\ (PassStarts \/ LockAsked) => ~BothBound
        /\ PassStarts => ~BothBound'
        /\ (ScanAsleep /\ scan_pc' # scan_pc /\ BothBound /\ ERROR_COUNT < ErrorLimit)
            => scan_pc' = "sleep" /\ UNCHANGED BT_LOCK
      ]_vars

\* C19: the scanner starts a discovery pass, and takes the radio lock for
\* it, only while a role is unbound; with both roles bound its wake-up goes
\* back to sleep; and while a role is unbound a pass always comes.
C19_ScansWhileUnbound ==
    /\ ScansOnlyUnbound
    /\ [](~BothBound => <>(scan_pc = "scan_window" \/ ~Running))

\* the same with the failed power command set apart
PassUnlessPowerFails ==
    [](~BothBound => <>(scan_pc \in { "scan_window", "failed" } \/ ~Running))

-----------------------------------------------------------------------------
(* Shutdown                                                                *)

\* C20: when the disconnect of the battery monitor in cleanup is over,
\* whether it returned or raised, no error has left cleanup, and cleanup goes
\* on to disconnect the solar charger if that one is connected.
C20_CleanupBestEffort ==
    [][ (main_pc = "cleanup_bm" /\ main_pc' # main_pc)
            => /\ main_pc' # "raised"
               /\ IsConnected(SOLAR_CHARGER) => main_pc' = "cleanup_sc"
      ]_vars

-----------------------------------------------------------------------------
(* The role tasks' failures                                                *)

\* between sessions: the sleep at the loop top and the sleep after a fault
BatResting == bat_pc \in { "idle", "cooldown" }
ChgResting == chg_pc \in { "idle", "cooldown" }

Counted == ERROR_COUNT' = ERROR_COUNT + 1

\* C21: every session of a role that ends (an adapter call raised, or the
\* streaming loop found the link disconnected) ends in the cool-down with
\* ERROR_COUNT one higher, not with the task dead; and a refresh write of the
\* battery monitor that raised sends the task into its fault handling.
C21_FailuresCounted ==
    [][ /\ (~BatResting /\ bat_pc' \in { "idle", "cooldown", "dead" })
            => bat_pc' = "cooldown" /\ Counted
        /\ (~ChgResting /\ chg_pc' \in { "idle", "cooldown", "dead" })
            => chg_pc' = "cooldown" /\ Counted
        /\ (bat_pc = "refresh" /\ error_count' = error_count + 1)
            => bat_pc' \in { "fault_disconnect", "cooldown" }
      ]_vars

\* C22: a fault handler that has come to its disconnect always goes on to
\* count the error and to sleep the cool-down, whether the disconnect
\* returned or raised.
C22_SecondaryErrorSwallowed ==
    [][ /\ (bat_pc = "fault_disconnect" /\ bat_pc' # bat_pc)
            => bat_pc' = "cooldown" /\ Counted
        /\ (chg_pc \in { "fault_wait", "fault_disconnect" }
                /\ chg_pc' \notin { "fault_wait", "fault_disconnect" })
            => chg_pc' = "cooldown" /\ Counted
      ]_vars

\* a role has connected and subscribed and enters its streaming loop
BatEstablished == bat_pc = "first_write" /\ bat_pc' = "stream"
ChgEstablished == chg_pc = "subscribe" /\ chg_pc' = "stream"

\* C23: ERROR_COUNT counts failures in a row: when a role has connected and
\* subscribed and enters its streaming loop the count starts again from zero.
C23_ConsecutiveFailures ==
    [][ (BatEstablished \/ ChgEstablished) => ERROR_COUNT' = 0 ]_vars

-----------------------------------------------------------------------------
(* The assembler after a stray end marker                                  *)

Starts == { LIVE_DATA_START, RECORDED_DATA_START }

\* C24: when a notification is processed and the buffer has its first 0xEE
\* before its first start marker, and the bytes after that 0xEE hold a frame
\* from a start marker to a later 0xEE, that frame is handed to the decoder
\* in the same delivery.
C24_RetryAfterDiscard ==
    [][ Delivers =>
            LET end == FirstOf(Buffered, { DATA_END })
                start == FirstOf(Buffered, Starts)
                rest == SubSeq(Buffered, end + 1, Len(Buffered))
            IN (end # 0 /\ start # 0 /\ end < start
                    /\ FirstOf(rest, Starts) < FirstOf(rest, { DATA_END }))
                => Len(decoded') > Len(decoded)
      ]_vars

\* C25: when a notification is processed and the buffer holds a 0xEE and no
\* start marker, the buffer is left without the bytes up to and including
\* that 0xEE.
C25_DiscardWithoutStart ==
    [][ Delivers =>
            LET end == FirstOf(Buffered, { DATA_END })
                start == FirstOf(Buffered, Starts)
            IN (end # 0 /\ start = 0)
                => read_buffer' = SubSeq(Buffered, end + 1, Len(Buffered))
      ]_vars

-----------------------------------------------------------------------------
(* Frames that are not well formed                                         *)

\* C26: when one notification brings a malformed frame and, behind it, the
\* frame bb 02 45 c0 00 ee, the callback runs to its end (its last statement
\* sets last_sent), the malformed frame leaves the reading as it was (the
\* pair ahead of a stray field id set aside), and the frame behind it is
\* decoded: voltage 2.45 at the time of the notification.
C26_MalformedDropped ==
    [][ \A m \in Malformed :
            (Delivers /\ read_buffer = <<>> /\ Delivered = m \o GoodFrame)
            => LET before == IF m = TwinFrame
                             THEN [state EXCEPT
                                    !.battery_current = state'.battery_current]
                             ELSE state
               IN /\ bat_last_sent' = now
                  /\ state' = [before EXCEPT !.battery_voltage = Frac(245, 100),
                                             !.timestamp = now]
                  /\ read_buffer' = <<>>
      ]_vars

-----------------------------------------------------------------------------
(* The reading's fields and its timestamp                                  *)

\* the reading apart from its timestamp
Fields(st) == [st EXCEPT !.timestamp = 0]

\* C27: a notification callback that has changed a field of the reading has
\* set the reading's timestamp to the time of the notification.
C27_FieldsWithTimestamp ==
    [][ (Delivers /\ Fields(state') # Fields(state)) => state'.timestamp = now
      ]_vars

\* C28: a battery frame that leaves every field of the reading with the
\* value it had leaves the timestamp as it was.
C28_TimestampOnChange ==
    [][ (Delivers /\ Fields(state') = Fields(state))
            => state'.timestamp = state.timestamp
      ]_vars

-----------------------------------------------------------------------------
(* The life of a device handle                                             *)

BatFaultOver == bat_pc # "cooldown" /\ bat_pc' = "cooldown"
ChgFaultOver == chg_pc # "cooldown" /\ chg_pc' = "cooldown"

\* C29, as claimed: when a role's fault handling is over and its cool-down
\* begins the role is unbound.
C29_FaultUnbinds ==
    [][ /\ BatFaultOver => BATTERY_MONITOR' = NoClient
        /\ ChgFaultOver => SOLAR_CHARGER' = NoClient
      ]_vars

\* reset_bluetooth is entered
ResetStarts ==
    /\ scan_pc \in { "sleep", "failed", "raised", "scan_settle" }
    /\ scan_pc' \in { "reset_off", "failed" }

\* C29: a role's fault handling leaves the role's handle as bound as it was;
\* a bound role becomes unbound only where reset_bluetooth is entered, which
\* unbinds both; an unbound role becomes bound only in the matching of a
\* discovery pass; and a connect is only started on a bound handle.
C29_HandleDiscardedByReset ==
    [][ /\ BatFaultOver => (BATTERY_MONITOR' = NoClient) = (BATTERY_MONITOR = NoClient)
        /\ ChgFaultOver => (SOLAR_CHARGER' = NoClient) = (SOLAR_CHARGER = NoClient)
        /\ (\/ BATTERY_MONITOR # NoClient /\ BATTERY_MONITOR' = NoClient
            \/ SOLAR_CHARGER # NoClient /\ SOLAR_CHARGER' = NoClient)
            => ResetStarts /\ Unbound'
        /\ (\/ BATTERY_MONITOR = NoClient /\ BATTERY_MONITOR' # NoClient
            \/ SOLAR_CHARGER = NoClient /\ SOLAR_CHARGER' # NoClient)
            => scan_pc = "scan_window" /\ scan_pc' = "scan_settle"
        /\ (bat_pc # "connect" /\ bat_pc' = "connect") => BATTERY_MONITOR # NoClient
        /\ (chg_pc # "connect" /\ chg_pc' = "connect") => SOLAR_CHARGER # NoClient
      ]_vars

\* the reset that the fifth error brought has unbound both roles while the
\* charger's task sleeps the cool-down of its fault
C29_Witness ==
    /\ chg_pc = "cooldown" /\ Unbound /\ scan_pc = "reset_off"
    /\ scan_trigger = "errors" /\ ERROR_COUNT >= ErrorLimit

-----------------------------------------------------------------------------
(* What follows an adapter call of a role task                             *)

BatFaultPcs == { "fault_disconnect", "cooldown" }
ChgFaultPcs == { "fault_wait", "fault_disconnect", "cooldown" }

\* the refresh write of the battery monitor has raised BleakError
RefreshFailed == bat_pc = "refresh" /\ error_count' = error_count + 1

BatAfter(pc) ==
    CASE pc = "connect" -> { "settle" }
      [] pc = "settle" -> { "read" }
      [] pc = "read" -> { "subscribe" }
      [] pc = "subscribe" -> { "first_write" }
      [] pc = "first_write" -> { "stream", "idle" }
      [] pc = "refresh" -> { "stream", "idle" }

ChgAfter(pc) ==
    CASE pc = "connect" -> { "read" }
      [] pc = "read" -> { "subscribe" }
      [] pc = "subscribe" -> { "stream", "idle" }
      [] pc = "request" -> { "stream", "idle" }

BatCalls == { "connect", "settle", "read", "subscribe", "first_write", "refresh" }
ChgCalls == { "connect", "read", "subscribe", "request" }

-----------------------------------------------------------------------------
(* What a discovery pass may bind                                          *)

\* the addresses of the devices found in the pass
FoundAddresses == { discovered[i].address : i \in 1..Len(discovered) }

\* the role is bound by this pass
BindsBattery == BATTERY_MONITOR = NoClient /\ BATTERY_MONITOR' # NoClient
BindsCharger == SOLAR_CHARGER = NoClient /\ SOLAR_CHARGER' # NoClient

\* C31: a discovery pass leaves the handle of a role that is bound when it
\* begins as it is; a role it binds gets a fresh handle for one of the devices
\* found; and when it binds both roles, they are bound to two different
\* devices.
C31_BindsUnboundOnce ==
    [][ Matched =>
            /\ BATTERY_MONITOR # NoClient => BATTERY_MONITOR' = BATTERY_MONITOR
            /\ SOLAR_CHARGER # NoClient => SOLAR_CHARGER' = SOLAR_CHARGER
            /\ BindsBattery =>
                \E a \in FoundAddresses : BATTERY_MONITOR' = Client(a)
            /\ BindsCharger =>
                \E a \in FoundAddresses : SOLAR_CHARGER' = Client(a)
            /\ (BindsBattery /\ BindsCharger) =>
                BATTERY_MONITOR'.dev # SOLAR_CHARGER'.dev
      ]_vars

\* two battery monitors and a charger were found with both roles unbound:
\* the first monitor and the charger are bound, the second monitor is not
C31_Witness ==
    /\ scan_pc = "scan_settle"
    /\ CONFIG = Config
    /\ Len(discovered) = 3
    /\ discovered[1].address = "54:15"
    /\ discovered[2].address = "54:14"
    /\ discovered[3].address = "C8:48"
    /\ BATTERY_MONITOR = Client("54:15")
    /\ SOLAR_CHARGER = Client("C8:48")

-----------------------------------------------------------------------------
(* The battery monitor sends a frame whose last byte before the end marker *)
(* is the field id of a pair                                               *)

\* value bytes: 02 45, 01, and 1a, which int() cannot read
TailValues == { << 2, 69 >>, << 1 >>, << 26 >> }

\* three field ids the decoder knows, and one it passes over
TailIds == { VOLTAGE, CURRENT, IS_CHARGING, POWER }

TailPairs == { Append(v, c) : v \in TailValues, c \in TailIds }

\* start marker, one pair or more, end marker
TailFrames ==
    { << LIVE_DATA_START >> \o Flatten(ps) \o << DATA_END >> :
        ps \in SeqsUpTo(TailPairs, MaxPairs) \ { <<>> } }

TailInit ==
    /\ ERROR_COUNT = 0
    /\ BATTERY_MONITOR = Notifying(Connected(Client("54:14")))
    /\ SOLAR_CHARGER = Notifying(Connected(Client("C8:47")))
    /\ BT_LOCK = <<>>
    /\ DB = TRUE
    /\ state = StateInit
    /\ now = Epoch /\ timed = FALSE
    /\ scan_pc = "sleep" /\ scan_attempts = 0 /\ scan_trigger = None
    /\ bat_pc = "stream" /\ read_buffer = <<>> /\ bat_last_sent = Epoch
    /\ bat_now = Epoch /\ error_count = 0 /\ bat_wake = 0
    /\ chg_pc = "stream" /\ chg_last_sent = NoTime /\ chg_wake = 0
    /\ snap_pc = "sleep" /\ last_timestamp = 0 /\ snap_wake = 0
    /\ asm_input \in TailFrames
    /\ asm_rest = asm_input
    /\ decoded = <<>>
    /\ hist = HistInit
    /\ seen = SeenInit
    /\ main_pc = "gather" /\ discovered = <<>> /\ CONFIG = Config

\* the frame arrives as one notification
TailDeliver == asm_rest # <<>> /\ Deliver(Len(asm_rest))

TailNext == TailDeliver

TailSpec == TailInit /\ [][TailNext]_vars

\* the pairs of the frame sent, its last byte included
FramePairs == PairsFrom(SubSeq(asm_input, 2, Len(asm_input) - 1), <<>>)

\* the field of the reading that a field id stands for
FieldOf(id, st) ==
    CASE id = VOLTAGE -> st.battery_voltage
      [] id = CURRENT -> st.battery_current
      [] id = IS_CHARGING -> st.battery_is_charging
      [] OTHER -> None

\* what a pair with the field id and the value bytes sets the field to
ValueOf(id, value) ==
    CASE id = VOLTAGE -> Frac(Number(value), 100)
      [] id = CURRENT -> Frac(Number(value), 100)
      [] id = IS_CHARGING -> (Number(value) = 1)
      [] OTHER -> None

\* the decoder gets past the k-th pair: no pair up to it has a field id it
\* knows with value bytes that spell no number
GetsPast(k) ==
    \A j \in 1..k :
        FramePairs[j].id \in Recognised => Spells(FramePairs[j].value)

\* C32: once a frame whose last byte is the field id of a pair has been
\* decoded, that pair has set nothing: the field it stands for holds what
\* the last earlier pair of the frame with the same id set it to, or its
\* initial value when there is none; a frame of that one pair alone leaves
\* the whole reading, timestamp included, as it was; and the pair's value
\* bytes are kept nowhere (the buffer is empty).
C32_FinalByteNotParsed ==
    (asm_rest = <<>> /\ asm_input \in TailFrames) =>
        LET n == Len(FramePairs)
            id == FramePairs[n].id
            K == { k \in 1..(n - 1) : FramePairs[k].id = id /\ GetsPast(k) }
        IN /\ read_buffer = <<>>
           /\ n = 1 => state = StateInit
           /\ FieldOf(id, state) =
                IF K = {} THEN FieldOf(id, StateInit)
                ELSE ValueOf(id, FramePairs[CHOOSE k \in K : \A j \in K : j <= k].value)

\* bb 0245 c0 ee: the decoder was handed bb 0245 c0 and the voltage is not set
C32_Witness ==
    /\ asm_input = << LIVE_DATA_START, 2, 69, VOLTAGE, DATA_END >>
    /\ asm_rest = <<>>
    /\ decoded = << << LIVE_DATA_START, 2, 69, VOLTAGE >> >>
    /\ state = StateInit

-----------------------------------------------------------------------------
(* Both devices stream: the notifications of the battery monitor and of    *)
(* the charger reach their callbacks in any order                          *)

\* bb, value byte, field id, the last byte, ee: one for every field id the
\* decoder knows
MixFrames ==
    { << LIVE_DATA_START, v, c, 64, DATA_END >> : v \in { 1, 35 }, c \in Recognised }

\* what the charger notifies: home-data replies and a reply of another kind
MixPackets ==
    { ChargerPacket(<< 1, 3, 38 >>, << 0, 150 >>, << 0, 200 >>, 25, 5,
                    << 0, 185 >>, 0, << 0, 0, 1, 2 >>),
      ChargerPacket(<< 1, 3, 38 >>, << 1, 44 >>, << 2, 88 >>, 30, 200,
                    << 1, 0 >>, 2, << 1, 0, 0, 0 >>),
      ChargerOtherReply }

MixInit ==
    /\ ERROR_COUNT = 0
    /\ BATTERY_MONITOR = Notifying(Connected(Client("54:14")))
    /\ SOLAR_CHARGER = Notifying(Connected(Client("C8:47")))
    /\ BT_LOCK = <<>>
    /\ DB = TRUE
    /\ state = StateInit
    /\ now = Epoch /\ timed = FALSE
    /\ scan_pc = "sleep" /\ scan_attempts = 0 /\ scan_trigger = None
    /\ bat_pc = "stream" /\ read_buffer = <<>> /\ bat_last_sent = Epoch
    /\ bat_now = Epoch /\ error_count = 0 /\ bat_wake = 0
    /\ chg_pc = "stream" /\ chg_last_sent = Epoch /\ chg_wake = 0
    /\ snap_pc = "sleep" /\ last_timestamp = 0 /\ snap_wake = 0
    /\ asm_input \in { Flatten(fs) : fs \in SeqsUpTo(MixFrames, MaxFrames) }
    /\ asm_rest = asm_input
    /\ decoded = <<>>
    /\ hist = HistInit
    /\ seen = SeenInit
    /\ main_pc = "gather" /\ discovered = <<>> /\ CONFIG = Config

\* the next frame of the battery monitor arrives
MixBattery == asm_rest # <<>> /\ Deliver(Find(asm_rest, DATA_END) + 1)

\* a packet of the charger arrives
MixCharger == \E p \in MixPackets : ChgData(p)

MixNext == MixBattery \/ MixCharger

MixSpec == MixInit /\ [][MixNext]_vars

\* the fields of the reading each decoder is said to write
BatteryWrites ==
    { "battery_voltage", "battery_current", "battery_is_charging",
      "battery_is_temp_in_f", "battery_ah", "battery_total_charge_energy",
      "battery_total_discharge_energy", "room_temp" }

ChargerWrites ==
    { "charger_voltage", "charger_current", "charger_temp",
      "charger_total_energy", "charger_status", "solar_panel_voltage",
      "battery_temp" }

\* the reading without the named fields
Without(st, names) == [ k \in (DOMAIN st) \ names |-> st[k] ]

\* the reading after the battery decoder is handed the frame, and after the
\* charger decoder is handed the packet
AfterFrame(st, f) == on_battery_monitor_data(<<>>, st, f, now).st
AfterPacket(st, p) == decode_solar_charger_data(p, st, now)

\* C33: the two lists of fields share none; a notification of the battery
\* monitor changes no field of the reading outside the battery list and the
\* timestamp, a notification of the charger none outside the charger list and
\* the timestamp; and from every reading reached, a battery frame and a
\* charger packet decoded in either order give the same values of every
\* field but the timestamp.
C33_DisjointFields ==
    [][ /\ BatteryWrites \cap ChargerWrites = {}
        /\ Delivers =>
            Without(state', BatteryWrites \cup { "timestamp" })
                = Without(state, BatteryWrites \cup { "timestamp" })
        /\ ~Delivers =>
            Without(state', ChargerWrites \cup { "timestamp" })
                = Without(state, ChargerWrites \cup { "timestamp" })
        /\ \A f \in MixFrames, p \in MixPackets :
            Fields(AfterPacket(AfterFrame(state, f), p))
                = Fields(AfterFrame(AfterPacket(state, p), f))
      ]_vars

\* a temperature frame and a voltage frame were decoded with a home-data
\* reply between them: fields of both lists are set
C33_Witness ==
    /\ asm_input = << LIVE_DATA_START, 35, TEMP_DATA, 64, DATA_END,
                      LIVE_DATA_START, 35, VOLTAGE, 64, DATA_END >>
    /\ asm_rest = <<>>
    /\ state.room_temp # StateInit.room_temp
    /\ state.battery_voltage = Frac(23, 100)
    /\ state.battery_temp = 128 - 200
    /\ state.charger_voltage = Frac(300, 10)

-----------------------------------------------------------------------------
(* When a role task calls connect                                          *)

BatConnects == bat_pc # "connect" /\ bat_pc' = "connect"
ChgConnects == chg_pc # "connect" /\ chg_pc' = "connect"

\* C34: a role task calls connect only in a state where both roles are
\* bound: whether it goes from its loop-top test straight to the call, or
\* waits for the lock in between.
C34_ConnectNeedsBoth ==
    [][ (BatConnects \/ ChgConnects) => BothBound ]_vars

\* three passes have found the battery monitor and no charger: the battery
\* task is still at its loop top and nothing is connected
C34_Witness ==
    /\ BATTERY_MONITOR # NoClient /\ SOLAR_CHARGER = NoClient
    /\ ~BATTERY_MONITOR.is_connected
    /\ scan_attempts = 3
    /\ bat_pc = "idle" /\ chg_pc = "idle"
    /\ BT_LOCK = <<>>

-----------------------------------------------------------------------------
(* reset_bluetooth and the radio lock                                      *)

\* C35: where reset_bluetooth is entered (the handles are cleared and the
\* adapter is powered off) no role task holds the radio lock, and none is in
\* a connect, read, subscribe, write or disconnect.
C35_ResetOutsideLockedSections ==
    [][ ResetStarts =>
            /\ ~Holds("bat") /\ ~Holds("chg")
            /\ ~BatOperating /\ ~ChgOperating
      ]_vars

-----------------------------------------------------------------------------
(* The radio lock: who is in its queue, and whether its holder can go on   *)

\* how many times the task is in the lock's queue (holder first)
TimesQueued(t) == Cardinality({ i \in DOMAIN BT_LOCK : BT_LOCK[i] = t })

\* the task has asked for the lock and not yet left the locked section
ScanLockPcs == { "lock_wait", "scan_window", "scan_settle" }
BatLockPcs ==
    { "lock_wait", "connect", "settle", "read", "subscribe", "first_write",
      "refresh_wait", "refresh" }
ChgLockPcs ==
    { "lock_wait", "connect", "read", "subscribe", "request_wait", "request",
      "fault_wait", "fault_disconnect" }

\* the task waits for the lock
ScanWaits == scan_pc = "lock_wait"
BatWaits == bat_pc \in { "lock_wait", "refresh_wait" }
ChgWaits == chg_pc \in { "lock_wait", "request_wait", "fault_wait" }

LockGranted ==
    LET Ends == ~Running \/ ERROR_COUNT = MaxErrorCount IN
    /\ [](ScanWaits => <>(~ScanWaits \/ Ends))
    /\ [](BatWaits => <>(~BatWaits \/ Ends))
    /\ [](ChgWaits => <>(~ChgWaits \/ Ends))

-----------------------------------------------------------------------------
(* snapshot_task with the database open or closed and the roles bound or   *)
(* not, before and after the first decode                                  *)

\* snapshot_task is asleep. The database is open, or main has closed it;
\* each role is bound and streaming, or unbound (before the first pass, or
\* after a power-cycle); nothing has been decoded yet, or one reply of the
\* charger has
CommitInit ==
    /\ ERROR_COUNT = 0
    /\ BATTERY_MONITOR \in { NoClient, Notifying(Connected(Client("54:14"))) }
    /\ SOLAR_CHARGER \in { NoClient, Notifying(Connected(Client("C8:47"))) }
    /\ BT_LOCK = <<>>
    /\ DB \in BOOLEAN
    /\ state \in { StateInit, decode_solar_charger_data(ChargerReply, StateInit, Epoch) }
    /\ now = Epoch /\ timed = TRUE
    /\ scan_pc = "sleep" /\ scan_attempts = 0 /\ scan_trigger = None
    /\ bat_pc = "stream" /\ read_buffer = <<>> /\ bat_last_sent = Epoch
    /\ bat_now = Epoch /\ error_count = 0 /\ bat_wake = Epoch + BatteryPoll
    /\ chg_pc = "stream" /\ chg_last_sent = NoTime /\ chg_wake = Epoch + ChargerPoll
    /\ snap_pc = "sleep" /\ last_timestamp = 0 /\ snap_wake = Epoch + 1
    /\ asm_input = <<>> /\ asm_rest = <<>> /\ decoded = <<>>
    /\ hist = HistInit
    /\ seen = SeenInit
    /\ main_pc = "gather" /\ discovered = <<>> /\ CONFIG = Config

CommitNext ==
    \/ SnapStep
    \/ BatData(BatteryFrame)
    \/ ChgData(ChargerReply)
    \/ SnapTick

CommitSpec == CommitInit /\ [][CommitNext]_vars

\* snapshot_task goes on from its test to the INSERT
SnapStarts == snap_pc = "sleep" /\ snap_pc' = "execute"

\* an INSERT or its commit is in progress
SnapStoring == snap_pc \in { "execute", "commit" }

\* C37: snapshot_task starts an INSERT only with the database open, a role
\* bound and the reading's timestamp other than the one it last went on
\* with, and the row carries that timestamp; a row being stored never has
\* the timestamp of the row committed last; and while the reading's
\* timestamp is 0 (nothing decoded yet) nothing is being stored or has been
\* committed.
C37_CommitsNewTimestamps ==
    [][ /\ SnapStarts =>
            /\ DB
            /\ SOLAR_CHARGER # NoClient \/ BATTERY_MONITOR # NoClient
            /\ state.timestamp # last_timestamp
            /\ last_timestamp' = state.timestamp
        /\ seen'.committed # seen.committed =>
            /\ snap_pc = "commit"
            /\ seen'.committed = last_timestamp
            /\ seen.committed # last_timestamp
        /\ SnapStoring' => last_timestamp' # seen'.committed
        /\ state'.timestamp = 0 => ~SnapStoring' /\ seen'.committed = 0
      ]_vars

\* the row of a later decode has been committed, and snapshot_task has since
\* come round with the reading's timestamp unchanged and stored nothing
C37_Witness ==
    /\ seen.committed = Epoch + 2
    /\ state.timestamp = Epoch + 2
    /\ last_timestamp = Epoch + 2
    /\ snap_pc = "sleep"
    /\ now = Epoch + 5
    /\ snap_wake = now + 1

-----------------------------------------------------------------------------
(* Discovery passes one after another, with adapter resets between them    *)

\* the first pass: both roles unbound, the scanner holds the lock and its
\* window has ended
RebindInit ==
    /\ ERROR_COUNT = 0
    /\ BATTERY_MONITOR = NoClient
    /\ SOLAR_CHARGER = NoClient
    /\ BT_LOCK = << "scan" >>
    /\ DB = TRUE
    /\ state = StateInit
    /\ now = Epoch /\ timed = FALSE
    /\ scan_pc = "scan_window" /\ scan_attempts = 0 /\ scan_trigger = None
    /\ bat_pc = "idle" /\ read_buffer = <<>> /\ bat_last_sent = NoTime
    /\ bat_now = Epoch /\ error_count = 0 /\ bat_wake = 0
    /\ chg_pc = "idle" /\ chg_last_sent = NoTime /\ chg_wake = 0
    /\ snap_pc = "sleep" /\ last_timestamp = 0 /\ snap_wake = 0
    /\ asm_input = <<>> /\ asm_rest = <<>> /\ decoded = <<>>
    /\ hist = HistInit
    /\ seen = SeenInit
    /\ main_pc = "gather"
    /\ discovered \in Found
    /\ CONFIG \in Configured

\* the pass is over with a role still unbound; the scanner comes round, takes
\* the lock again and its next window ends with the devices found
ScanNextPass ==
    /\ Running /\ scan_pc = "scan_settle"
    /\ BATTERY_MONITOR = NoClient \/ SOLAR_CHARGER = NoClient
    /\ scan_pc' = "scan_window"
    /\ discovered' \in Found
    /\ UNCHANGED << ERROR_COUNT, handleVars, BT_LOCK, DB, state, clockVars,
                    scan_attempts, scan_trigger, batVars, chgVars, snapVars,
                    asmVars, CONFIG, main_pc, seen, hist >>

\* the scanner comes round by way of reset_bluetooth, which unbinds both
\* roles, and its next window ends with the devices found
ScanPassAfterReset ==
    /\ Running /\ scan_pc = "scan_settle"
    /\ BATTERY_MONITOR' = NoClient
    /\ SOLAR_CHARGER' = NoClient
    /\ scan_pc' = "scan_window"
    /\ discovered' \in Found
    /\ UNCHANGED << ERROR_COUNT, BT_LOCK, DB, state, clockVars,
                    scan_attempts, scan_trigger, batVars, chgVars, snapVars,
                    asmVars, CONFIG, main_pc, seen, hist >>

RebindNext ==
    \/ ScanMatch
    \/ ScanNextPass
    \/ ScanPassAfterReset

RebindSpec == RebindInit /\ [][RebindNext]_vars

\* the two roles are bound to one device
SameDevice == BothBound /\ BATTERY_MONITOR.dev = SOLAR_CHARGER.dev

\* C38: with no address configured, the two roles are never bound to the
\* same device, whatever the passes find and wherever the adapter is reset.
C38_RolesOnDistinctDevices ==
    CONFIG = Config => ~SameDevice

\* the battery monitor was bound in an earlier pass; this pass found another
\* monitor, which advertises the charger's service too, and a charger: the
\* charger is bound, the other monitor is not
C38_Witness ==
    /\ CONFIG = Config
    /\ scan_pc = "scan_settle"
    /\ Len(discovered) = 2
    /\ discovered[1].address = "54:15"
    /\ discovered[2].address = "C8:47"
    /\ BATTERY_MONITOR = Client("54:14")
    /\ SOLAR_CHARGER = Client("C8:47")

-----------------------------------------------------------------------------
(* The battery monitor sends frames in two notifications, and connections  *)
(* are lost and made again between them                                    *)

MaxBuffer == 6          \* bytes in read_buffer that are followed

\* bb 0245: a frame's start, and c0 00 ee: its end
FrameHead == << LIVE_DATA_START, 2, 69 >>
FrameTail == << VOLTAGE, 0, DATA_END >>

\* both roles bound, nothing connected yet
ReconnectInit ==
    /\ ERROR_COUNT = 0
    /\ BATTERY_MONITOR = Client("54:14")
    /\ SOLAR_CHARGER = Client("C8:47")
    /\ BT_LOCK = <<>>
    /\ DB = TRUE
    /\ state = StateInit
    /\ now = Epoch /\ timed = FALSE
    /\ scan_pc = "sleep" /\ scan_attempts = 0 /\ scan_trigger = None
    /\ bat_pc = "idle" /\ read_buffer = <<>> /\ bat_last_sent = NoTime
    /\ bat_now = Epoch /\ error_count = 0 /\ bat_wake = 0
    /\ chg_pc = "idle" /\ chg_last_sent = NoTime /\ chg_wake = 0
    /\ snap_pc = "sleep" /\ last_timestamp = 0 /\ snap_wake = 0
    /\ asm_input = <<>> /\ asm_rest = <<>> /\ decoded = <<>>
    /\ hist = HistInit
    /\ seen = SeenInit
    /\ main_pc = "gather" /\ discovered = <<>> /\ CONFIG = Config

\* a notification with one half of a frame
BatPiece ==
    \E data \in { FrameHead, FrameTail } :
        /\ Len(read_buffer) + Len(data) <= MaxBuffer
        /\ BatData(data)

ReconnectNext ==
    \/ BatStep
    \/ ChgStep
    \/ BatLinkDrop
    \/ ChgLinkDrop
    \/ BatPiece

ReconnectSpec == ReconnectInit /\ [][ReconnectNext]_vars

\* monitor_battery is past its loop-top test and start_notify has not
\* returned yet
BatConnecting ==
    bat_pc \in { "lock_wait", "connect", "settle", "read", "subscribe" }

\* C39: from the step of monitor_battery that goes on to connect until
\* start_notify has returned on the new connection, the assembler's buffer is
\* empty: whatever a connection left in it is gone before the first
\* notification of the next one.
C39_FreshBuffer == BatConnecting => read_buffer = <<>>

\* a frame was decoded on an earlier connection, and the task connects again
C39_Witness ==
    /\ bat_pc = "connect"
    /\ ~BATTERY_MONITOR.is_connected
    /\ state.battery_voltage = Frac(245, 100)
    /\ ERROR_COUNT = 2
    /\ read_buffer = <<>>

-----------------------------------------------------------------------------
(* The frames the assembler cuts                                           *)

\* the frame is one the assertion "start >= 0 and end > start" allows: it
\* has a first byte, which is the start marker at start, and ends before the
\* first end marker
WellCut(frame) ==
    /\ frame # <<>>
    /\ frame[1] \in Starts
    /\ \A i \in 1..Len(frame) : frame[i] # DATA_END

\* C40: every frame handed to the decoder is not empty, begins with a start
\* marker and holds no end marker, as the assertion before the cut says; and
\* the first frame cut in a delivery is the part of the buffer from its
\* earliest start marker (0xBB or 0xAA, whichever comes first) up to the end
\* marker that follows.
C40_FramesWellCut ==
    [][ Delivers =>
            /\ \A k \in 1..Len(decoded') : WellCut(decoded'[k])
            /\ Len(decoded') > Len(decoded) =>
                LET frame == decoded'[Len(decoded) + 1]
                    s == FirstOf(Buffered, Starts)
                IN /\ s # 0
                   /\ s + Len(frame) <= Len(Buffered)
                   /\ frame = SubSeq(Buffered, s, s + Len(frame) - 1)
                   /\ Buffered[s + Len(frame)] = DATA_END
      ]_vars

\* aa bb 02 ee: the frame starts at the 0xAA, which comes before the 0xBB
C40_Witness ==
    /\ asm_input = << RECORDED_DATA_START, LIVE_DATA_START, 2, DATA_END >>
    /\ asm_rest = <<>>
    /\ decoded = << << RECORDED_DATA_START, LIVE_DATA_START, 2 >> >>

====
